---- MODULE Spec2Model ----
(***************************************************************************)
(* A model of the economic engine of the world simulation server:          *)
(*   - Market order matching and price discovery (societal/market.rs),     *)
(*   - the tick scheduler's lock discipline (sim_server/simulation.rs),    *)
(*   - the slow-tick economy: deposits, orders, trades, wages, taxes,      *)
(*     loans, construction funds (sim_server/simulation.rs),               *)
(*   - the currency ledger (societal/currency.rs),                         *)
(*   - the builder's purchase, the ordering of buildings and the           *)
(*     rebalancing of labor (sim_server/simulation.rs).                    *)
(*                                                                         *)
(* Money and prices are f64 in the source.  They are modelled as integers  *)
(* counting hundredths of a gold piece (5.0 gold = 500); every price the   *)
(* program forms from its constants is a whole number of hundredths.       *)
(***************************************************************************)
EXTENDS Bags, FiniteSets, Integers, Sequences, TLC

VARIABLES
    \* ---- one Market's order book (Market::match_orders) ----
    buy_orders,         \* Market.buy_orders: Seq of TradeOrder
    sell_orders,        \* Market.sell_orders: Seq of TradeOrder
    transaction_count,  \* Market.transaction_count
    executions,         \* the Vec<TradeExecution> returned by the last call
    match_log,          \* per execution: the two order quantities when matched
    book_before,        \* the order book when the last call started
    calls,              \* number of match_orders() calls made so far
    \* ---- the reader-writer locks and the two kinds of task ----
    sched_phase,        \* the tick phase the scheduler loop is running
    sched_slot,         \* next step of the phase to start
    sched_prog,         \* lock events left in the step being executed
    sched_wait,         \* TRUE while the scheduler is blocked in read()/write()
    held,               \* locks the scheduler holds, in acquisition order
    api,                \* per API request handler: what it does with a lock
    \* ---- the economy (Simulation and its subsystems) ----
    roster,             \* LifecycleLayer.agents: Seq of SimAgent
    markets,            \* MarketSystem.markets: Seq of Market
    nodes,              \* ResourceManager.nodes: Seq of ResourceNode
    buildings,          \* BuildingManager: Seq of Building
    total_supply,       \* CurrencySystem.total_supply
    wage_timer,         \* Simulation.wage_timer
    ticks,              \* slow and very slow ticks run so far
    price_op,           \* the last market operation of the price specification
    currency,           \* CurrencySystem: inflation_rate, deflation_events,
                        \* transaction_count (total_supply is kept above)
    ledger_before,      \* money in wallets and funds, and the supply, when
                        \* the last operation started
    build_op,           \* the last construction operation and the economy
                        \* it started from
    labor_op,           \* the runs of rebalance_labor since the roster last
                        \* changed otherwise, and the rosters they started from
    call,               \* the last operation applied on its own: its name,
                        \* what it was given and what it returned
    trade_log           \* the trades executed by the last slow tick, with
                        \* what each did to wallets and inventories

matchVars == <<buy_orders, sell_orders, transaction_count, executions,
               match_log, book_before, calls>>

lockVars == <<sched_phase, sched_slot, sched_prog, sched_wait, held, api>>

econVars == <<roster, markets, nodes, buildings, total_supply, wage_timer,
              ticks, price_op, trade_log, currency, ledger_before,
              build_op, labor_op, call>>

vars == <<matchVars, lockVars, econVars>>

----------------------------------------------------------------------------
(* Generic helpers *)

Min(a, b) == IF a <= b THEN a ELSE b

RemoveAt(s, k) == SubSeq(s, 1, k - 1) \o SubSeq(s, k + 1, Len(s))

RECURSIVE SumQty(_)
SumQty(s) == IF s = <<>> THEN 0 ELSE Head(s).quantity + SumQty(Tail(s))

----------------------------------------------------------------------------
(* Bounds of the order-book model *)

MaxOrders == 3      \* at most this many orders (buy + sell) in a drawn book

MaxQty == 2         \* order quantities are drawn from 1..MaxQty

MaxCalls == 3       \* the call counter stops counting at this value

Resources == {"Wood", "Stone"}

Prices == {400, 500, 600}

----------------------------------------------------------------------------
(* Market::match_orders, market.rs 110-170 *)

\* A stricter test than line 122: the prices must differ
CrossesStrictly(buy, sell) ==
    buy.resource = sell.resource /\ buy.price_per_unit > sell.price_per_unit

\* line 122: same resource and buy price >= sell price
Crosses(buy, sell) ==
    buy.resource = sell.resource /\ buy.price_per_unit >= sell.price_per_unit

\* A trade priced at the buyer's limit instead of the midpoint
BuyPrice(buy, sell) == buy.price_per_unit

\* line 124: the trade price is the midpoint of the two limit prices
MidPrice(buy, sell) == (buy.price_per_unit + sell.price_per_unit) \div 2

\* A trade of the whole buy order whatever the sell order holds
BuyQuantity(buy, sell) == buy.quantity

\* line 123: the traded quantity
MatchQuantity(buy, sell) == Min(buy.quantity, sell.quantity)

\* An inner loop that never finds a sell order
NoMatch(buy, sells) == 0

\* inner while loop (117-161): the first sell order the buy order crosses,
\* as a 1-based index, or 0 when the scan reaches the end of the list
FirstMatch(buy, sells) ==
    IF \E j \in 1..Len(sells) : Crosses(buy, sells[j])
    THEN CHOOSE j \in 1..Len(sells) :
            /\ Crosses(buy, sells[j])
            /\ \A k \in 1..(j - 1) : ~Crosses(buy, sells[k])
    ELSE 0

\* lines 142-148: a buy order filled to zero is removed and the index stays;
\* otherwise its quantity is reduced and the index moves on
BuyAfterMatch(buys, i, q) ==
    IF buys[i].quantity - q = 0
    THEN [orders |-> RemoveAt(buys, i), next |-> i]
    ELSE [orders |-> [buys EXCEPT ![i].quantity = @ - q], next |-> i + 1]

\* lines 150-155, likewise for the sell order
SellAfterMatch(sells, j, q) ==
    IF sells[j].quantity - q = 0
    THEN [orders |-> RemoveAt(sells, j), next |-> j]
    ELSE [orders |-> [sells EXCEPT ![j].quantity = @ - q], next |-> j + 1]

\* lines 164-166: after the inner loop (left by break or by exhaustion) the
\* buy index is advanced once more when the sell index is past the list.
\* Indices are 1-based here, so "j >= len" reads "j > Len".
AdvanceAfterScan(i, j, sells) == IF j > Len(sells) THEN i + 1 ELSE i

\* One iteration of the outer while loop for buy index i
RECURSIVE MatchLoop(_, _, _, _, _)
MatchLoop(buys, sells, execs, log, i) ==
    IF i > Len(buys)
    THEN [buy_orders |-> buys, sell_orders |-> sells,
          executions |-> execs, log |-> log]
    ELSE LET j == FirstMatch(buys[i], sells) IN
         IF j = 0
         THEN MatchLoop(buys, sells, execs, log,
                        AdvanceAfterScan(i, Len(sells) + 1, sells))
         ELSE LET buy  == buys[i]
                  sell == sells[j]
                  q    == MatchQuantity(buy, sell)
                  ex   == [buyer_id |-> buy.agent_id,
                           seller_id |-> sell.agent_id,
                           resource |-> buy.resource,
                           quantity |-> q,
                           price_per_unit |-> MidPrice(buy, sell)]
                  b2   == BuyAfterMatch(buys, i, q)
                  s2   == SellAfterMatch(sells, j, q)
              IN MatchLoop(b2.orders, s2.orders, Append(execs, ex),
                           Append(log, <<buy.quantity, sell.quantity>>),
                           AdvanceAfterScan(b2.next, s2.next, s2.orders))

match_orders(buys, sells) == MatchLoop(buys, sells, <<>>, <<>>, 1)

----------------------------------------------------------------------------
(* The reader-writer locks (parking_lot::RwLock) and the lock events of    *)
(* every scheduler operation.  An event is the acquisition of a lock in    *)
(* read or write mode, or the drop of a guard.                             *)

\* The five guarded structures, in the global acquisition order
GuardedLocks == <<"Resource", "Market", "Building", "Roster", "Currency">>

\* Locks outside that order: the API's world state and metrics, the kingdom
\* manager and the event bus's subscriber table
OtherLocks == {"WorldState", "Metrics", "Kingdoms", "Subscribers"}

Rank(l) == CHOOSE k \in 1..Len(GuardedLocks) : GuardedLocks[k] = l

IsGuarded(l) == \E k \in 1..Len(GuardedLocks) : GuardedLocks[k] = l

Acq(l, m) == [op |-> "acq", lock |-> l, mode |-> m]

Rel(l) == [op |-> "rel", lock |-> l, mode |-> "-"]

\* LifecycleLayer::get_agents, count_living: read lock for the clone only
GetAgents == <<Acq("Roster", "r"), Rel("Roster")>>

\* LifecycleLayer::update_agent_state
UpdateAgentState == <<Acq("Roster", "w"), Rel("Roster")>>

\* LifecycleLayer::kill_agent: the roster write guard is held across
\* event_bus.publish(), which reads the subscriber table
KillAgent ==
    <<Acq("Roster", "w"), Acq("Subscribers", "r"), Rel("Subscribers"),
      Rel("Roster")>>

\* LifecycleLayer::spawn_agent
SpawnAgent == <<Acq("Roster", "w"), Rel("Roster")>>

\* ResourceManager::get_nodes, find_nearest
GetNodes == <<Acq("Resource", "r"), Rel("Resource")>>

\* ResourceManager::harvest
HarvestNode == <<Acq("Resource", "w"), Rel("Resource")>>

\* Simulation::get_market_price
GetMarketPrice == <<Acq("Market", "r"), Rel("Market")>>

ReadBuildings == <<Acq("Building", "r"), Rel("Building")>>

WriteBuildings == <<Acq("Building", "w"), Rel("Building")>>

\* tick_fast 316-400: a fight, the loser's death, the raid of a nearby node
\* and the storing of the loot in a faction warehouse
CombatLocks ==
    LET fight == UpdateAgentState \o UpdateAgentState
        death == fight \o KillAgent
        raid  == death \o GetNodes \o HarvestNode
    IN {<<>>, fight, death, death \o GetNodes, raid,
        raid \o ReadBuildings, raid \o ReadBuildings \o WriteBuildings}

\* tick_fast 406-833: update_living_agents holds the roster write guard
\* while the closure looks up markets (446, 497, 519, 543), buildings (474)
\* and resource nodes (738, 754, 755, 788)
MovementLocks ==
    {<<Acq("Roster", "w")>> \o inner \o <<Rel("Roster")>> :
        inner \in {<<>>, GetMarketPrice, ReadBuildings \o GetMarketPrice,
                   GetNodes}}

\* Simulation::rebalance_labor 2075-2228: roster write guard kept to the
\* end, the markets read inside it (2095-2127)
RebalanceLaborLocks ==
    <<Acq("Roster", "w"), Acq("Market", "r"), Rel("Market"), Rel("Roster")>>

\* tick_slow 841-859: every tenth tick the labor check
LaborCheckLocks == {<<>>, GetAgents, GetAgents \o RebalanceLaborLocks}

\* tick_slow 870-959: the needs cycle
NeedsLocks == {<<Acq("Roster", "w"), Rel("Roster")>>}

\* Simulation::assign_builders_to_buildings 1976-2072
AssignBuildersLocks ==
    {ReadBuildings, ReadBuildings \o <<Acq("Roster", "w"), Rel("Roster")>>}

\* Simulation::process_burgher_activities 1888-1973: early return at 1898,
\* else two price lookups (1903, 1904) under the roster write guard
BurgherLocks ==
    {<<Acq("Roster", "w"), Rel("Roster")>>,
     <<Acq("Roster", "w")>> \o GetMarketPrice \o GetMarketPrice
        \o <<Rel("Roster")>>}

\* tick_slow 971-1043: harvesting under the roster write guard
HarvestingLocks ==
    {<<Acq("Roster", "w")>> \o GetNodes \o <<Rel("Roster")>>,
     <<Acq("Roster", "w")>> \o GetNodes \o HarvestNode \o <<Rel("Roster")>>}

\* The trade section without the drop at 1140: the roster is read at 1143
\* under the write guard of 1047
TradeLocksNoDrop ==
    {<<Acq("Market", "w"), Acq("Roster", "w")>>
        \o GetAgents
        \o <<Acq("Roster", "w"), Acq("Currency", "w"),
             Rel("Currency"), Rel("Roster"), Rel("Market")>>}

\* tick_slow 1046-1297: deposits, order placement, matching and trade
\* execution, under the markets write guard taken at 1046
TradeLocks ==
    {<<Acq("Market", "w"), Acq("Roster", "w")>> \o deposit
        \o <<Rel("Roster")>>                              \* 1140
        \o GetAgents                                       \* 1143
        \o <<Acq("Roster", "w"), Acq("Currency", "w"),     \* 1246, 1247
             Rel("Currency"), Rel("Roster"), Rel("Market")>>
      : deposit \in {<<>>, <<Acq("Currency", "w"), Rel("Currency")>>}}

\* tick_slow 1299-1336: wages, when the wage timer has run out
WageLocks ==
    {<<>>, <<Acq("Roster", "w"), Acq("Currency", "w"), Rel("Currency"),
             Rel("Roster")>>}

\* tick_slow 1339-1556: construction; for each incomplete building the
\* registry write guard is taken under the roster write guard (1353, 1356)
ConstructionLocks ==
    {GetAgents \o ReadBuildings,
     GetAgents \o ReadBuildings
        \o <<Acq("Roster", "w"), Acq("Building", "w"), Rel("Building"),
             Rel("Roster")>>}

\* Simulation::sync_world_state_to_api 2285-2480: every guard lives to the
\* end of the function
SyncWorldStateLocks ==
    {GetAgents \o GetNodes
        \o <<Acq("WorldState", "w"), Acq("Market", "r"), Acq("Currency", "r"),
             Acq("Building", "r"), Rel("Building"), Rel("Currency"),
             Rel("Market"), Rel("WorldState")>>}

\* Simulation::collect_taxes 1807-1856
CollectTaxesLocks == {<<Acq("Roster", "w"), Rel("Roster")>>}

\* Simulation::replenish_construction_funds 1696-1804: price lookups under
\* the registry read guard (1698-1727), then roster (1734), then registry
ReplenishLocks ==
    LET pricing == <<Acq("Building", "r")>> \o GetMarketPrice
                     \o <<Rel("Building")>>
    IN {ReadBuildings, pricing}
         \cup {pricing \o <<Acq("Roster", "w"), Rel("Roster")>> \o wr :
                 wr \in {<<>>, WriteBuildings}}

\* LifecycleLayer::tick 81-113: count, maybe a birth, maybe deaths
LifecycleTickLocks ==
    {GetAgents \o birth \o GetAgents \o death :
        birth \in {<<>>, SpawnAgent}, death \in {<<>>, KillAgent}}

\* check_resource_scarcity_and_trigger_wars 2494-2557
WarCheckLocks ==
    {GetNodes \o GetAgents, GetNodes \o GetAgents \o GetAgents}

\* process_king_decisions 2560-2621
KingLocks ==
    {GetAgents \o GetNodes \o <<Acq("Kingdoms", "w"), Rel("Kingdoms")>>}

\* process_noble_orders 2624-2767: an ordered building is priced with
\* get_market_price under the registry write guard (2727-2761)
NobleOrderLocks ==
    {ReadBuildings,
     ReadBuildings \o GetAgents
        \o <<Acq("Kingdoms", "w"), Rel("Kingdoms")>>,
     ReadBuildings \o GetAgents
        \o <<Acq("Kingdoms", "w"), Acq("Building", "w")>> \o GetMarketPrice
        \o <<Rel("Building"), Rel("Kingdoms")>>}

\* process_peasant_building 2770-2918
PeasantBuildingLocks ==
    {ReadBuildings,
     ReadBuildings \o GetAgents,
     ReadBuildings \o GetAgents \o ReadBuildings \o GetMarketPrice
        \o GetMarketPrice,
     ReadBuildings \o GetAgents \o ReadBuildings \o GetMarketPrice
        \o GetMarketPrice \o WriteBuildings}

\* tick_very_slow 2268-2273
MetricsLocks == {<<Acq("Metrics", "w"), Rel("Metrics")>>}

\* The steps of each tick phase, in program order; each step is the set of
\* lock-event sequences its branches can produce.
TickFastSteps ==
    <<{GetAgents}, CombatLocks, {GetAgents}, MovementLocks>>

TickSlowSteps ==
    <<LaborCheckLocks, NeedsLocks, AssignBuildersLocks, BurgherLocks,
      HarvestingLocks, TradeLocks, WageLocks, ConstructionLocks,
      SyncWorldStateLocks>>

TickVerySlowSteps ==
    <<{RebalanceLaborLocks}, CollectTaxesLocks, ReplenishLocks,
      LifecycleTickLocks, {GetAgents}, WarCheckLocks, KingLocks,
      NobleOrderLocks, PeasantBuildingLocks, MetricsLocks>>

PhaseSteps(phase) ==
    CASE phase = "fast" -> TickFastSteps
      [] phase = "slow" -> TickSlowSteps
      [] phase = "very_slow" -> TickVerySlowSteps
      [] OTHER -> <<>>

Phases == {"fast", "slow", "very_slow"}

\* Concurrent request handlers of the admin API (routes.rs 129-150)
Handlers == {"h1", "h2"}

\* The locks a handler reads: get_metrics and get_world_state
ApiLocks == {"Metrics", "WorldState"}

\* ---- lock state ----

SchedHolds(l, m) == \E k \in 1..Len(held) : held[k] = <<l, m>>

ApiHolds(l) == \E h \in Handlers : api[h] = [at |-> "hold", lock |-> l]

\* The event the scheduler is at, when it is at one
SchedAt(op) == sched_prog # <<>> /\ Head(sched_prog).op = op

\* The scheduler is blocked in write() on lock l
WriterWaiting(l) ==
    /\ sched_wait
    /\ SchedAt("acq")
    /\ Head(sched_prog).lock = l
    /\ Head(sched_prog).mode = "w"

\* RwLock: a read guard is granted when no write guard exists; a write
\* guard when no guard exists.  Guards of the requesting task count too:
\* the lock is not re-entrant.
CanGrantSched(l, m) ==
    IF m = "r"
    THEN ~SchedHolds(l, "w")
    ELSE ~SchedHolds(l, "w") /\ ~SchedHolds(l, "r") /\ ~ApiHolds(l)

\* parking_lot blocks new readers while a writer is waiting
CanGrantApi(l) == ~SchedHolds(l, "w") /\ ~WriterWaiting(l)

\* drop(guard): the latest guard on lock l leaves the held list
DropGuard(hs, l) ==
    LET k == CHOOSE i \in 1..Len(hs) :
                /\ hs[i][1] = l
                /\ \A j \in (i + 1)..Len(hs) : hs[j][1] # l
    IN RemoveAt(hs, k)

----------------------------------------------------------------------------
(* The economy.  Money is counted in hundredths of a gold piece; where the *)
(* source divides or takes a percentage, the fraction of a hundredth is    *)
(* dropped.                                                                *)

Gold == 10 * 10     \* one gold piece, in hundredths

ResourceTypes == {"Food", "Wood", "Stone", "Iron"}

\* The base price table repeated at simulation.rs 1081-1087, 1172-1178,
\* 1209-1215 and 1668-1674
BasePrice(r) ==
    CASE r = "Food" -> 10 * Gold
      [] r = "Wood" -> 5 * Gold
      [] r = "Stone" -> 3 * Gold
      [] r = "Iron" -> 15 * Gold

Harvesters == {"Woodcutter", "Miner", "Farmer"}

IsHarvester(a) == a.job \in Harvesters

NoGoods == [r \in ResourceTypes |-> 0]

\* SimAgent::new_with_class: the starting purse of each class
StartingWallet(class) ==
    CASE class = "King" -> 1000 * Gold
      [] class = "Noble" -> 500 * Gold
      [] class = "Knight" -> 200 * Gold
      [] class \in {"Merchant", "Burgher"} -> 150 * Gold
      [] class = "Soldier" -> 100 * Gold
      [] class = "Cleric" -> 80 * Gold
      [] OTHER -> 50 * Gold

\* SimAgent::new_with_class: what each job needs to hold
NeedsOf(job) ==
    CASE job = "Builder" ->
            [r \in ResourceTypes |->
                CASE r = "Food" -> 5 [] r = "Wood" -> 10 [] r = "Stone" -> 10
                  [] OTHER -> 0]
      [] job = "Farmer" ->
            [r \in ResourceTypes |->
                CASE r = "Food" -> 5 [] r = "Wood" -> 2 [] OTHER -> 0]
      [] job \in {"Woodcutter", "Miner"} ->
            [r \in ResourceTypes |->
                CASE r = "Food" -> 5 [] r = "Iron" -> 1 [] OTHER -> 0]
      [] OTHER ->
            [r \in ResourceTypes |-> IF r = "Food" THEN 5 ELSE 0]

\* carrying_resources: None (agent.rs 148); the resources are 0 then
NoCarry ==
    [some |-> FALSE, wood |-> 0, stone |-> 0, iron |-> 0,
     target_building_id |-> 0]

\* A SimAgent.  near_market is the index of the market within 6.0 units of
\* the agent (0: none), near_node the index of the resource node within
\* 3.0 units (0: none); both stand for the position.
NewAgent(class, job, wallet, goods) ==
    [social_class |-> class, job |-> job, state |-> "Idle",
     near_market |-> 0, near_node |-> 0,
     wallet |-> wallet, inventory |-> goods, needs |-> NeedsOf(job),
     loans_owed |-> 0, carrying_resources |-> NoCarry]

\* MarketGood as add_inventory and the deposit create it: the current
\* price starts at the base price
NewGood(r, q) ==
    [stocked |-> TRUE, quantity |-> q, base_price |-> BasePrice(r),
     current_price |-> BasePrice(r)]

\* A resource the market has no entry for
NoGood == [stocked |-> FALSE, quantity |-> 0, base_price |-> 0,
           current_price |-> 0]

\* Market::new: empty inventory, empty order lists
NewMarket ==
    [inventory |-> [r \in ResourceTypes |-> NoGood],
     buy_orders |-> <<>>, sell_orders |-> <<>>, transaction_count |-> 0]

\* Market::add_inventory
add_inventory(m, r, q) ==
    [m EXCEPT !.inventory[r] =
        IF @.stocked THEN [@ EXCEPT !.quantity = @ + q] ELSE NewGood(r, q)]

\* update_prices, line 176-180: the demand for a resource is the quantity
\* of its outstanding buy orders
Demand(buys, r) ==
    SumQty(SelectSeq(buys, LAMBDA o : o.resource = r))

\* A price left as computed
NoClamp(x, lo, hi) == x

\* f64::clamp
Clamp(x, lo, hi) == IF x < lo THEN lo ELSE IF x > hi THEN hi ELSE x

\* A price that ignores stock and demand
BasePriceOf(good, demand) == good.base_price

\* update_prices, lines 183-190, for one good:
\*   base * (0.8 + supply_factor * 0.4), supply_factor = demand / quantity,
\*   or 2.0 when nothing is in stock; then the clamp to [0.5, 3] x base
UpdatedPrice(good, demand) ==
    LET raw == IF good.quantity > 0
               THEN (good.base_price * (8 * good.quantity + 4 * demand))
                        \div (10 * good.quantity)
               ELSE (good.base_price * 16) \div 10
    IN Clamp(raw, good.base_price \div 2, good.base_price * 3)

\* Market::update_prices
update_prices(m) ==
    [m EXCEPT !.inventory =
        [r \in ResourceTypes |->
            IF m.inventory[r].stocked
            THEN [m.inventory[r] EXCEPT
                    !.current_price =
                        UpdatedPrice(m.inventory[r], Demand(m.buy_orders, r))]
            ELSE m.inventory[r]]]

\* Simulation::get_market_price: the mean current price over the markets
\* that stock the resource, or the default price
get_market_price(ms, r) ==
    LET stocking == {k \in 1..Len(ms) : ms[k].inventory[r].stocked}
        RECURSIVE Total(_)
        Total(S) == IF S = {} THEN 0
                    ELSE LET k == CHOOSE x \in S : TRUE
                         IN ms[k].inventory[r].current_price + Total(S \ {k})
    IN IF stocking # {} THEN Total(stocking) \div Cardinality(stocking)
       ELSE BasePrice(r)

\* ---- the currency ledger (currency.rs) ----

\* inflation_rate is counted in units of 0.00000005, in which
\* recalculate_inflation's 0.02 + (total_supply / 10000 - 1) * 0.05 is the
\* supply in hundredths less 6000 gold
InflationOf(supply) == supply - 6000 * Gold

\* CurrencySystem::new: the given supply, the other fields at their defaults
NewLedger(initial_supply) ==
    [total_supply |-> initial_supply, inflation_rate |-> 0,
     deflation_events |-> 0, transaction_count |-> 0]

\* CurrencySystem::recalculate_inflation (base_value, the purchasing power,
\* is not kept)
recalculate_inflation(c) ==
    [c EXCEPT !.inflation_rate = InflationOf(c.total_supply)]

\* CurrencySystem::mint_currency
mint_currency(c, amount) ==
    recalculate_inflation([c EXCEPT !.total_supply = @ + amount])

\* A burn that takes the amount whatever the supply
BurnUnclamped(c, amount) ==
    recalculate_inflation(
        [c EXCEPT !.total_supply = @ - amount, !.deflation_events = @ + 1])

\* CurrencySystem::burn_currency
burn_currency(c, amount) ==
    recalculate_inflation(
        [c EXCEPT !.total_supply = IF @ - amount > 0 THEN @ - amount ELSE 0,
                  !.deflation_events = @ + 1])

\* CurrencySystem::record_transaction
record_transaction(c, amount) == [c EXCEPT !.transaction_count = @ + 1]

\* The ledger of economy st, and st with ledger c
LedgerOf(st) ==
    [total_supply |-> st.total_supply,
     inflation_rate |-> st.currency.inflation_rate,
     deflation_events |-> st.currency.deflation_events,
     transaction_count |-> st.currency.transaction_count]

WithLedger(st, c) ==
    [st EXCEPT !.total_supply = c.total_supply,
               !.currency = [inflation_rate |-> c.inflation_rate,
                             deflation_events |-> c.deflation_events,
                             transaction_count |-> c.transaction_count]]

\* ---- tick_slow: harvesting (971-1043) ----

\* The resource a node yields (1017-1021)
YieldOf(node_type) ==
    CASE node_type = "Tree" -> "Wood"
      [] node_type = "Rock" -> "Stone"
      [] node_type = "Farm" -> "Food"
      [] node_type = "IronDeposit" -> "Iron"

\* The node types a job harvests (981-986)
HarvestTypes(job) ==
    CASE job = "Woodcutter" -> {"Tree"}
      [] job = "Miner" -> {"Rock", "IronDeposit"}
      [] job = "Farmer" -> {"Farm"}
      [] OTHER -> {}

RECURSIVE SumOver(_, _)
SumOver(f, S) ==
    IF S = {} THEN 0
    ELSE LET x == CHOOSE y \in S : TRUE IN f[x] + SumOver(f, S \ {x})

\* SimAgent::current_inventory_weight
current_inventory_weight(a) == SumOver(a.inventory, ResourceTypes)

\* What an agent can carry
CarryCapacity == 10

\* SimAgent::can_carry_more
can_carry_more(a, amount) ==
    current_inventory_weight(a) + amount <= CarryCapacity

\* A harvest that hands out the amount asked for, whatever the node holds
HarvestAsked(ns, k, amount) ==
    IF k \in 1..Len(ns)
    THEN [nodes |-> [ns EXCEPT ![k].quantity = @ - amount],
          some |-> TRUE, harvested |-> amount]
    ELSE [nodes |-> ns, some |-> FALSE, harvested |-> 0]

\* ResourceManager::harvest (resources.rs 82-91).  A node's id is its place
\* in the list; an id that is no place in the list belongs to no node.
\* The node found gives what it has, at most amount (Some(harvested));
\* without a node the answer is None.
harvest(ns, k, amount) ==
    IF k \in 1..Len(ns)
    THEN LET harvested == Min(amount, ns[k].quantity)
         IN [nodes |-> [ns EXCEPT ![k].quantity = @ - harvested],
             some |-> TRUE, harvested |-> harvested]
    ELSE [nodes |-> ns, some |-> FALSE, harvested |-> 0]

\* The body of the harvesting loop for agent i.  snapshot is the copy of the
\* nodes taken before the loop (972); the nearest node is sought in it.
HarvestOne(st, snapshot, i) ==
    LET a == st.roster[i]
        k == a.near_node
    IN IF /\ a.state = "Working"
          /\ k # 0
          /\ snapshot[k].resource_type \in HarvestTypes(a.job)
          /\ snapshot[k].quantity > 0
       THEN IF can_carry_more(a, 5)
            THEN LET h == harvest(st.nodes, k, 5)
                     r == YieldOf(snapshot[k].resource_type)
                 IN [st EXCEPT !.nodes = h.nodes,
                               !.roster[i].inventory[r] = @ + h.harvested]
            ELSE [st EXCEPT !.roster[i].state = "Trading"]
       ELSE st

RECURSIVE HarvestLoop(_, _, _)
HarvestLoop(st, snapshot, i) ==
    IF i > Len(st.roster) THEN st
    ELSE HarvestLoop(HarvestOne(st, snapshot, i), snapshot, i + 1)

HarvestAll(st) == HarvestLoop(st, st.nodes, 1)

\* ---- tick_slow: harvester deposits (1046-1140) ----

\* A deposit paid at the whole base price
FullPrice(r) == BasePrice(r)

\* The market price a deposit is paid at: 90% of the base price (1090)
DepositPrice(r) == (BasePrice(r) * 9) \div 10

\* The goods of inventory inv go into market m, resource by resource
RECURSIVE DepositGoods(_, _, _)
DepositGoods(m, inv, rs) ==
    IF rs = {} THEN m
    ELSE LET r == CHOOSE x \in rs : TRUE
         IN DepositGoods(IF inv[r] > 0 THEN add_inventory(m, r, inv[r]) ELSE m,
                         inv, rs \ {r})

DepositEarnings(inv) ==
    SumOver([r \in ResourceTypes |-> DepositPrice(r) * inv[r]], ResourceTypes)

DepositOne(st, i) ==
    LET a == st.roster[i]
        k == a.near_market
        paid == IF DepositEarnings(a.inventory) > 0
                THEN WithLedger(st, record_transaction(LedgerOf(st),
                                        DepositEarnings(a.inventory)))
                ELSE st
    IN IF a.state = "Trading" /\ IsHarvester(a) /\ k # 0
       THEN [paid EXCEPT
               !.markets[k] = DepositGoods(@, a.inventory, ResourceTypes),
               !.roster[i].wallet = @ + DepositEarnings(a.inventory),
               !.roster[i].inventory = NoGoods,
               !.roster[i].state = "Working"]
       ELSE st

RECURSIVE DepositLoop(_, _)
DepositLoop(st, i) ==
    IF i > Len(st.roster) THEN st ELSE DepositLoop(DepositOne(st, i), i + 1)

DepositAll(st) == DepositLoop(st, 1)

\* ---- tick_slow: order placement (1143-1243) ----

\* The order in which the resource maps are walked
ResourceOrder == <<"Food", "Wood", "Stone", "Iron">>

\* 1181-1182: the limit price of a buy order, twice the base price when the
\* agent holds none of the resource, else one and a half times
MaxBuyPrice(r, current_amount) ==
    IF current_amount = 0 THEN BasePrice(r) * 2 ELSE (BasePrice(r) * 3) \div 2

\* 1218-1224: merchants and burghers ask 20% over the base price
AskingPrice(r, class) ==
    IF class \in {"Merchant", "Burgher"}
    THEN (BasePrice(r) * 12) \div 10
    ELSE BasePrice(r)

\* 1163-1198: the buy orders agent a (roster index i) places
BuyOrdersOf(a, i) ==
    LET wants(r) ==
            /\ a.inventory[r] < a.needs[r]
            /\ a.wallet >= MaxBuyPrice(r, a.inventory[r])
                             * (a.needs[r] - a.inventory[r])
        order(r) == [agent_id |-> i, resource |-> r,
                     quantity |-> a.needs[r] - a.inventory[r],
                     price_per_unit |-> MaxBuyPrice(r, a.inventory[r])]
        RECURSIVE Walk(_)
        Walk(k) == IF k > Len(ResourceOrder) THEN <<>>
                   ELSE (IF wants(ResourceOrder[k])
                         THEN <<order(ResourceOrder[k])>> ELSE <<>>)
                        \o Walk(k + 1)
    IN Walk(1)

\* 1200-1238: the sell orders agent a places: all it holds beyond twice
\* what it needs
SellOrdersOf(a, i) ==
    LET order(r) == [agent_id |-> i, resource |-> r,
                     quantity |-> a.inventory[r] - 2 * a.needs[r],
                     price_per_unit |-> AskingPrice(r, a.social_class)]
        RECURSIVE Walk(_)
        Walk(k) == IF k > Len(ResourceOrder) THEN <<>>
                   ELSE (IF a.inventory[ResourceOrder[k]]
                                > 2 * a.needs[ResourceOrder[k]]
                         THEN <<order(ResourceOrder[k])>> ELSE <<>>)
                        \o Walk(k + 1)
    IN Walk(1)

\* Market::place_buy_order, place_sell_order: the orders join the lists
PlaceOrdersOne(st, i) ==
    LET a == st.roster[i]
        k == a.near_market
    IN IF a.state = "Trading" /\ ~IsHarvester(a) /\ k # 0
       THEN [st EXCEPT
               !.markets[k].buy_orders = @ \o BuyOrdersOf(a, i),
               !.markets[k].sell_orders = @ \o SellOrdersOf(a, i)]
       ELSE st

RECURSIVE PlaceOrdersLoop(_, _)
PlaceOrdersLoop(st, i) ==
    IF i > Len(st.roster) THEN st
    ELSE PlaceOrdersLoop(PlaceOrdersOne(st, i), i + 1)

PlaceOrdersAll(st) == PlaceOrdersLoop(st, 1)

\* ---- tick_slow: matching and trade execution (1246-1289) ----

\* Subtraction that does not stop at zero
PlainSub(a, b) == a - b

\* u32::saturating_sub
saturating_sub(a, b) == IF a >= b THEN a - b ELSE 0

\* An agent's id is its place in the roster; find (1256, 1268) finds none
\* for an id that is no place in it
Found(ros, id) == id \in 1..Len(ros)

\* 1255-1284: one trade.  The buyer, if found, pays and receives if it can
\* still afford the trade (1260-1265); only then is the seller sought
\* (1268): if found it is paid, its inventory is reduced with
\* saturating_sub and the transaction is recorded.  The log keeps what a
\* trade that reached the seller did to each side.
ExecuteTrade(st, trade) ==
    IF ~Found(st.roster, trade.buyer_id) THEN st
    ELSE
    LET buyer == st.roster[trade.buyer_id]
        total_cost == trade.price_per_unit * trade.quantity
    IN IF buyer.wallet >= total_cost
       THEN LET r1 == [st.roster EXCEPT
                        ![trade.buyer_id].wallet = @ - total_cost,
                        ![trade.buyer_id].inventory[trade.resource] =
                            @ + trade.quantity]
            IN IF ~Found(r1, trade.seller_id)
               THEN [st EXCEPT !.roster = r1]
               ELSE
               LET seller_had ==
                       r1[trade.seller_id].inventory[trade.resource]
                   seller_has == saturating_sub(seller_had, trade.quantity)
                   r2 == [r1 EXCEPT
                           ![trade.seller_id].wallet = @ + total_cost,
                           ![trade.seller_id].inventory[trade.resource] =
                               seller_has]
               IN [WithLedger(st,
                              record_transaction(LedgerOf(st), total_cost))
                   EXCEPT
                     !.roster = r2,
                     !.trade_log = Append(@,
                         [quantity |-> trade.quantity,
                          price_per_unit |-> trade.price_per_unit,
                          paid |-> buyer.wallet - r1[trade.buyer_id].wallet,
                          received |-> r2[trade.seller_id].wallet
                                         - r1[trade.seller_id].wallet,
                          added |->
                              r1[trade.buyer_id].inventory[trade.resource]
                                - buyer.inventory[trade.resource],
                          removed |-> seller_had - seller_has])]
       ELSE st

RECURSIVE ExecuteTrades(_, _)
ExecuteTrades(st, trades) ==
    IF trades = <<>> THEN st
    ELSE ExecuteTrades(ExecuteTrade(st, Head(trades)), Tail(trades))

\* 1249-1288 for market k: match, execute, update the prices
TradeAtMarket(st, k) ==
    LET m == st.markets[k]
        r == match_orders(m.buy_orders, m.sell_orders)
        matched == [m EXCEPT
                      !.buy_orders = r.buy_orders,
                      !.sell_orders = r.sell_orders,
                      !.transaction_count = @ + Len(r.executions)]
        st2 == ExecuteTrades(st, r.executions)
    IN [st2 EXCEPT !.markets[k] = update_prices(matched)]

RECURSIVE TradeLoop(_, _)
TradeLoop(st, k) ==
    IF k > Len(st.markets) THEN st ELSE TradeLoop(TradeAtMarket(st, k), k + 1)

TradeAll(st) == TradeLoop([st EXCEPT !.trade_log = <<>>], 1)

\* ---- tick_slow: inter-market transfers (balance_market_inventories) ----

\* 1598-1610: the markets holding more than the mean plus 50 (with their
\* surplus over the mean), and those holding less than the mean minus 50
\* (with their deficit), in market order
SurplusMarkets(ms, r, avg) ==
    LET RECURSIVE Walk(_)
        Walk(k) ==
            IF k > Len(ms) THEN <<>>
            ELSE (IF ms[k].inventory[r].stocked
                     /\ ms[k].inventory[r].quantity > avg + 50
                  THEN <<[id |-> k, amount |-> ms[k].inventory[r].quantity - avg]>>
                  ELSE <<>>) \o Walk(k + 1)
    IN Walk(1)

DeficitMarkets(ms, r, avg) ==
    LET RECURSIVE Walk(_)
        Walk(k) ==
            IF k > Len(ms) THEN <<>>
            ELSE (IF ms[k].inventory[r].stocked
                     /\ ~(ms[k].inventory[r].quantity > avg + 50)
                     /\ ms[k].inventory[r].quantity + 50 < avg
                  THEN <<[id |-> k, amount |-> avg - ms[k].inventory[r].quantity]>>
                  ELSE <<>>) \o Walk(k + 1)
    IN Walk(1)

\* A transfer of half the smaller of deficit and surplus, however large
TransferUncapped(deficit_amount, surplus_amount) ==
    Min(deficit_amount \div 2, surplus_amount \div 2)

\* 1624: (deficit_amount / 2).min(surplus_amount / 2).min(30)
TransferAmount(deficit_amount, surplus_amount) ==
    Min(Min(deficit_amount \div 2, surplus_amount \div 2), 30)

\* 1618-1637: each deficit market is served from the first market that
\* still has surplus
RECURSIVE PlanTransfers(_, _)
PlanTransfers(deficits, remaining_surplus) ==
    IF deficits = <<>> \/ remaining_surplus = <<>> THEN <<>>
    ELSE LET d == Head(deficits)
             s == Head(remaining_surplus)
             transfer_amount == TransferAmount(d.amount, s.amount)
         IN IF transfer_amount > 0
            THEN <<[from |-> s.id, to |-> d.id, amount |-> transfer_amount]>>
                 \o PlanTransfers(Tail(deficits),
                        IF s.amount - transfer_amount = 0
                        THEN Tail(remaining_surplus)
                        ELSE <<[s EXCEPT !.amount = @ - transfer_amount]>>
                               \o Tail(remaining_surplus))
            ELSE PlanTransfers(Tail(deficits), remaining_surplus)

\* 1640-1688: a transfer is carried out only if the source still holds the
\* amount (1653); the destination's good is created at the base price if
\* missing.  acc holds the markets and the transfers carried out so far,
\* each with what its source held when it was carried out.
RECURSIVE ExecuteTransfers(_, _, _)
ExecuteTransfers(acc, r, transfers) ==
    IF transfers = <<>> THEN acc
    ELSE LET t == Head(transfers)
             ms == acc.markets
             ok == ms[t.from].inventory[r].stocked
                      /\ ms[t.from].inventory[r].quantity >= t.amount
             taken == [ms EXCEPT ![t.from].inventory[r].quantity = @ - t.amount]
             given == [taken EXCEPT ![t.to] = add_inventory(@, r, t.amount)]
         IN ExecuteTransfers(
                IF ok
                THEN [markets |-> given,
                      applied |-> Append(acc.applied,
                          [resource |-> r, from |-> t.from, to |-> t.to,
                           amount |-> t.amount,
                           source_had |-> ms[t.from].inventory[r].quantity])]
                ELSE acc,
                r, Tail(transfers))

\* 1574-1692 for one resource
BalanceResource(acc, r) ==
    LET ms == acc.markets
        stocking == {k \in 1..Len(ms) : ms[k].inventory[r].stocked}
        total_inventory ==
            SumOver([k \in 1..Len(ms) |-> ms[k].inventory[r].quantity], stocking)
        average_inventory == total_inventory \div Cardinality(stocking)
    IN IF stocking = {} THEN acc
       ELSE ExecuteTransfers(acc, r,
                PlanTransfers(DeficitMarkets(ms, r, average_inventory),
                              SurplusMarkets(ms, r, average_inventory)))

\* Simulation::balance_market_inventories: wood, stone, iron, food (1567)
BalanceAll(ms) ==
    BalanceResource(
        BalanceResource(
            BalanceResource(
                BalanceResource([markets |-> ms, applied |-> <<>>], "Wood"),
                "Stone"),
            "Iron"),
        "Food")

balance_market_inventories(ms) == BalanceAll(ms).markets

\* ---- tick_slow: wages (1299-1336) ----

\* 1310-1326: the hourly wage of a job; the unemployed get a stipend by
\* class
Wage(a) ==
    CASE a.job = "Farmer" -> 5 * Gold
      [] a.job = "Woodcutter" -> 6 * Gold
      [] a.job = "Miner" -> 7 * Gold
      [] a.job = "Builder" -> 8 * Gold
      [] OTHER ->
            CASE a.social_class = "King" -> 50 * Gold
              [] a.social_class = "Noble" -> 20 * Gold
              [] a.social_class = "Knight" -> 15 * Gold
              [] a.social_class = "Soldier" -> 10 * Gold
              [] a.social_class = "Merchant" -> 12 * Gold
              [] a.social_class = "Cleric" -> 8 * Gold
              [] OTHER -> 0

\* The timer value at which the next slow tick pays wages (1302)
WagePeriod == 60

\* 1300-1336: fetch_add(1) returns the old timer value; wages are paid and
\* minted when it has reached 60, and the timer restarts
PayWages(st) ==
    LET wages == SumOver([i \in 1..Len(st.roster) |-> Wage(st.roster[i])],
                         1..Len(st.roster))
        paid == [st EXCEPT
                   !.wage_timer = 0,
                   !.roster = [i \in 1..Len(st.roster) |->
                       [st.roster[i] EXCEPT !.wallet = @ + Wage(st.roster[i])]]]
    IN IF st.wage_timer >= WagePeriod
       THEN IF wages > 0
            THEN WithLedger(paid, mint_currency(LedgerOf(st), wages))
            ELSE paid
       ELSE [st EXCEPT !.wage_timer = @ + 1]

\* ---- tick_slow: construction loans (process_burgher_activities) ----

\* 1905: the cost of a peasant house at market prices, with the 300% buffer
HouseCost(ms) ==
    (30 * get_market_price(ms, "Wood") + 10 * get_market_price(ms, "Stone")) * 3

\* 1892-1895: burghers and merchants holding 500 gold or more, with the
\* wallet cached when the list is built
WealthyBurghers(ros) ==
    LET RECURSIVE Walk(_)
        Walk(i) ==
            IF i > Len(ros) THEN <<>>
            ELSE (IF ros[i].social_class \in {"Burgher", "Merchant"}
                     /\ ros[i].wallet >= 500 * Gold
                  THEN <<[id |-> i, wallet |-> ros[i].wallet]>> ELSE <<>>)
                 \o Walk(i + 1)
    IN Walk(1)

\* 1910-1921: peasants holding at least 30% of the house cost but not all
\* of it, and owing nothing, ask for the difference
LoanRequests(ros, house_cost) ==
    LET RECURSIVE Walk(_)
        Walk(i) ==
            IF i > Len(ros) THEN <<>>
            ELSE (IF /\ ros[i].social_class = "Peasant"
                     /\ ros[i].wallet < house_cost
                     /\ 10 * ros[i].wallet >= 3 * house_cost
                     /\ ros[i].loans_owed = 0
                  THEN <<[id |-> i, amount |-> house_cost - ros[i].wallet]>>
                  ELSE <<>>) \o Walk(i + 1)
    IN Walk(1)

\* Vec::position: the first lender whose cached wallet covers the amount
FirstLender(wealthy, amount) ==
    IF \E k \in 1..Len(wealthy) : wealthy[k].wallet >= amount
    THEN CHOOSE k \in 1..Len(wealthy) :
            /\ wealthy[k].wallet >= amount
            /\ \A j \in 1..(k - 1) : wealthy[j].wallet < amount
    ELSE 0

\* 1925-1966: the loans are issued, at most three per call
RECURSIVE IssueLoans(_, _, _, _)
IssueLoans(ros, requests, wealthy, loans_issued) ==
    IF requests = <<>> \/ loans_issued >= 3 THEN ros
    ELSE LET q == Head(requests)
             idx == FirstLender(wealthy, q.amount)
         IN IF idx = 0
            THEN IssueLoans(ros, Tail(requests), wealthy, loans_issued)
            ELSE LET lender == wealthy[idx].id
                     left == wealthy[idx].wallet - q.amount
                     ros2 == [ros EXCEPT ![q.id].wallet = @ + q.amount,
                                         ![q.id].loans_owed = @ + 1]
                     ros3 == [ros2 EXCEPT ![lender].wallet = @ - q.amount]
                     wealthy2 == IF left < 500 * Gold
                                 THEN RemoveAt(wealthy, idx)
                                 ELSE [wealthy EXCEPT ![idx].wallet = left]
                 IN IssueLoans(ros3, Tail(requests), wealthy2, loans_issued + 1)

\* Simulation::process_burgher_activities
process_burgher_activities(st) ==
    LET wealthy == WealthyBurghers(st.roster)
    IN IF wealthy = <<>> THEN st
       ELSE [st EXCEPT !.roster =
                IssueLoans(st.roster,
                           LoanRequests(st.roster, HouseCost(st.markets)),
                           wealthy, 0)]

\* ---- tick_very_slow: taxes (collect_taxes) ----

TaxableClasses == {"Peasant", "Burgher", "Merchant", "Cleric", "Soldier"}

IsNoble(a) == a.social_class \in {"King", "Noble"}

\* 1825-1826: 5% of the wallet of a taxable agent holding more than 50 gold
TaxOf(a) ==
    IF a.social_class \in TaxableClasses /\ a.wallet > 50 * Gold
    THEN (a.wallet * 5) \div 100
    ELSE 0

\* Simulation::collect_taxes: the taxes are shared equally among the kings
\* and nobles; with none of them the money is dropped
collect_taxes(st) ==
    LET ros == st.roster
        idx == 1..Len(ros)
        total_collected == SumOver([i \in idx |-> TaxOf(ros[i])], idx)
        nobles == {i \in idx : IsNoble(ros[i])}
        per_noble == IF nobles = {} THEN 0
                     ELSE total_collected \div Cardinality(nobles)
    IN [st EXCEPT !.roster =
          [i \in idx |->
              [ros[i] EXCEPT !.wallet =
                  @ - TaxOf(ros[i])
                    + (IF i \in nobles /\ total_collected > 0
                       THEN per_noble ELSE 0)]]]

\* ---- tick_very_slow: fund replenishment ----

\* 1706-1711: the cost of what a building still lacks, at market prices
EstimatedCost(b, ms) ==
    SumOver([r \in ResourceTypes |-> get_market_price(ms, r) * b.remaining[r]],
            ResourceTypes)

\* Every unfinished building asks for money
Unfinished(b, ms) == ~b.complete

\* 1703-1724: an unfinished building whose fund is under half the estimated
\* cost asks for twice that cost
NeedsFunding(b, ms) ==
    ~b.complete /\ 2 * b.construction_fund < EstimatedCost(b, ms)

\* 1753-1779: a public building is paid for by the kings and nobles, each
\* giving an equal share if its wallet covers the share
RECURSIVE NoblesContribute(_, _, _)
NoblesContribute(acc, per_noble, i) ==
    IF i > Len(acc.roster) THEN acc
    ELSE NoblesContribute(
            IF IsNoble(acc.roster[i]) /\ acc.roster[i].wallet >= per_noble
            THEN [roster |-> [acc.roster EXCEPT ![i].wallet = @ - per_noble],
                  funded |-> acc.funded + per_noble]
            ELSE acc,
            per_noble, i + 1)

\* 1736-1787 for building k: the owner pays the whole amount or nothing
FundOne(st, k) ==
    LET b == st.buildings[k]
        additional_needed == 2 * EstimatedCost(b, st.markets)
        nobles == {i \in 1..Len(st.roster) : IsNoble(st.roster[i])}
    IN IF b.owner # 0
       THEN IF st.roster[b.owner].wallet >= additional_needed
            THEN [roster |-> [st.roster EXCEPT
                                ![b.owner].wallet = @ - additional_needed],
                  funded |-> additional_needed]
            ELSE [roster |-> st.roster, funded |-> 0]
       ELSE IF nobles # {}
            THEN NoblesContribute([roster |-> st.roster, funded |-> 0],
                    additional_needed \div Cardinality(nobles), 1)
            ELSE [roster |-> st.roster, funded |-> 0]

\* Simulation::replenish_construction_funds: the requests are drawn up from
\* the buildings as they are at the start (1698-1727), then served in order
RECURSIVE ReplenishLoop(_, _, _)
ReplenishLoop(st, before, k) ==
    IF k > Len(before.buildings) THEN st
    ELSE IF NeedsFunding(before.buildings[k], before.markets)
         THEN LET f == FundOne(st, k)
              IN ReplenishLoop(
                    [st EXCEPT !.roster = f.roster,
                               !.buildings[k].construction_fund = @ + f.funded],
                    before, k + 1)
         ELSE ReplenishLoop(st, before, k + 1)

replenish_construction_funds(st) == ReplenishLoop(st, st, 1)

\* ---- tick_slow: the builder's purchase (1387-1532) ----

\* 2049-2066: what assign_builders_to_buildings gives a builder sent to
\* building b: the target, and no resources yet
Assigned(b) == [NoCarry EXCEPT !.some = TRUE, !.target_building_id = b]

\* 1431, 1452, 1473: the most bought of a resource in one attempt
PurchaseLimit(r) == IF r = "Iron" THEN 10 ELSE 20

\* A purchase attempt that stops after the wood
WoodOnly == <<"Wood">>

\* The resources bought, in program order
PurchaseOrder == <<"Wood", "Stone", "Iron">>

\* A purchase priced at one piece whatever the quantity
UnitCost(good, take) == good.current_price

\* 1433, 1454, 1475: the cost of take pieces at the market's current price
CostOf(good, take) == good.current_price * take

\* A fund that is never found short
AlwaysAffords(fund_left, cost) == TRUE

\* 1435, 1456, 1477: what is left of the fund covers the cost
Affords(fund_left, cost) == fund_left >= cost

\* The builder paying out of its own wallet
PayFromWallet(st, i, b, total_cost) ==
    [st EXCEPT !.roster[i].wallet = @ - total_cost]

\* 1499: the cost is taken from the building's fund
PayFromFund(st, i, b, total_cost) ==
    [st EXCEPT !.buildings[b].construction_fund = @ - total_cost]

\* 1429-1446 (wood), 1450-1467 (stone), 1471-1488 (iron): buy resource r if
\* the building lacks it, the market has an entry for it and what is left of
\* the fund covers the cost of what is taken
BuyResource(acc, r, remaining, building_fund) ==
    LET good == acc.market.inventory[r]
        take == Min(Min(remaining[r], PurchaseLimit(r)), good.quantity)
        cost == CostOf(good, take)
    IN IF remaining[r] > 0 /\ good.stocked /\ take > 0
          /\ Affords(building_fund - acc.total_cost, cost)
       THEN [market |-> [acc.market EXCEPT !.inventory[r].quantity = @ - take],
             carried |-> [acc.carried EXCEPT ![r] = take],
             total_cost |-> acc.total_cost + cost]
       ELSE acc

RECURSIVE BuyResources(_, _, _, _)
BuyResources(acc, n, remaining, building_fund) ==
    IF n > Len(PurchaseOrder) THEN acc
    ELSE BuyResources(BuyResource(acc, PurchaseOrder[n], remaining,
                                  building_fund),
                      n + 1, remaining, building_fund)

\* 1389-1411: builder i is the one assigned to building b, the building
\* still lacks resources and the builder stands within 6.0 of market k
AtMarketFor(st, i, b, k) ==
    /\ st.roster[i].job = "Builder"
    /\ st.roster[i].state \in {"Moving", "Building"}
    /\ st.roster[i].carrying_resources.some
    /\ st.roster[i].carrying_resources.target_building_id = b
    /\ ~st.buildings[b].complete
    /\ \E r \in ResourceTypes : st.buildings[b].remaining[r] > 0
    /\ k # 0
    /\ st.roster[i].near_market = k

\* 1413-1518: builder i buys for building b at market k out of the
\* building's fund.  (just_transacted, a marker for the display, is not
\* kept.)
purchase(st, i, b, k) ==
    LET bought == BuyResources([market |-> st.markets[k], carried |-> NoGoods,
                                total_cost |-> 0],
                               1, st.buildings[b].remaining,
                               st.buildings[b].construction_fund)
        paid == IF bought.total_cost > 0
                THEN PayFromFund(
                         WithLedger(st, record_transaction(LedgerOf(st),
                                                           bought.total_cost)),
                         i, b, bought.total_cost)
                ELSE st
        stocked == [paid EXCEPT !.markets[k] = bought.market]
    IN IF \E r \in ResourceTypes : bought.carried[r] > 0
       THEN [stocked EXCEPT
               !.roster[i].carrying_resources =
                   [some |-> TRUE, wood |-> bought.carried["Wood"],
                    stone |-> bought.carried["Stone"],
                    iron |-> bought.carried["Iron"],
                    target_building_id |-> b],
               !.roster[i].state = "Building"]
       ELSE stocked

\* ---- tick_very_slow: new buildings (process_noble_orders, ----
\* ---- process_peasant_building)                            ----

\* BuildingType::required_resources (buildings.rs 42-106), for the types
\* ordered here
RequiredResources(type) ==
    CASE type = "Farm" ->
            [NoGoods EXCEPT !["Wood"] = 40, !["Stone"] = 20, !["Iron"] = 5]
      [] type = "Tavern" ->
            [NoGoods EXCEPT !["Wood"] = 50, !["Stone"] = 30, !["Iron"] = 5]
      [] type = "PeasantHouse" ->
            [NoGoods EXCEPT !["Wood"] = 30, !["Stone"] = 10]
      [] type = "FarmingShed" ->
            [NoGoods EXCEPT !["Wood"] = 20, !["Stone"] = 5]

\* 2737-2746: three times the cost of the required resources at market
\* prices (2813-2818 and 2866-2871 form the same amount from the numbers
\* of the house and the shed)
AllocatedFunds(type, ms) ==
    3 * SumOver([r \in ResourceTypes |->
                     get_market_price(ms, r) * RequiredResources(type)[r]],
                ResourceTypes)

\* Building::new with the fund allocated; owner 0 is BuildingOwner::Public
FundedBuilding(type, owner, fund) ==
    [owner |-> owner, construction_fund |-> fund,
     remaining |-> RequiredResources(type), complete |-> FALSE]

\* 2626-2638, 2775-2786: fewer than 8 buildings are under construction
MaxConcurrentConstruction == 8

HasSlot(st) ==
    Cardinality({b \in 1..Len(st.buildings) : ~st.buildings[b].complete})
        < MaxConcurrentConstruction

\* 2654-2761: noble i, whose king's kingdom has a goal, orders a public
\* building of the type the goal and the dice select
noble_order(st, i, type) ==
    IF /\ st.roster[i].social_class = "Noble"
       /\ \E j \in 1..Len(st.roster) : st.roster[j].social_class = "King"
       /\ HasSlot(st)
    THEN [st EXCEPT !.buildings =
            Append(@, FundedBuilding(type, 0, AllocatedFunds(type, st.markets)))]
    ELSE st

\* 2799-2853 (house), 2854-2904 (shed, farmers only): peasant i starts a
\* building of its own if its wallet covers the fund
peasant_building(st, i, type) ==
    IF /\ st.roster[i].social_class = "Peasant"
       /\ type = "FarmingShed" => st.roster[i].job = "Farmer"
       /\ HasSlot(st)
       /\ st.roster[i].wallet >= AllocatedFunds(type, st.markets)
    THEN [st EXCEPT !.buildings =
            Append(@, FundedBuilding(type, i, AllocatedFunds(type, st.markets)))]
    ELSE st

\* ---- rebalance_labor (2075-2228) ----

\* Every class may be given a harvesting job
AnyClass == {}

\* 2183-2187: the classes whose members keep their jobs
ProtectedClasses == {"King", "Noble", "Knight", "Soldier"}

\* 2182-2190: a builder or an unemployed agent of an unprotected class
Convertible(a, protected) ==
    a.job \in {"Builder", "Unemployed"} /\ a.social_class \notin protected

\* 2085-2091: the agents holding one of the jobs
CountJob(ros, jobs) == Cardinality({i \in 1..Len(ros) : ros[i].job \in jobs})

\* 2099-2126: the stock of resource r over all markets
TotalInventory(ms, r) ==
    SumOver([k \in 1..Len(ms) |-> ms[k].inventory[r].quantity], 1..Len(ms))

\* 2103-2126: the price of resource r at the last market, in the order the
\* markets are iterated, that has an entry for it; the default without one
LastPrice(ms, order, r) ==
    LET stocking == {n \in 1..Len(order) : ms[order[n]].inventory[r].stocked}
        last == CHOOSE n \in stocking : \A m \in stocking : m <= n
    IN IF stocking = {} THEN BasePrice(r)
       ELSE ms[order[last]].inventory[r].current_price

\* 2131-2136: the demand for resource r, price / (stock + 10), multiplied
\* by the four divisors so that the demands compare as integers
DemandWeight(ms, order, r) ==
    LET RECURSIVE Product(_)
        Product(S) ==
            IF S = {} THEN 1
            ELSE LET x == CHOOSE y \in S : TRUE
                 IN (TotalInventory(ms, x) + 10) * Product(S \ {x})
    IN LastPrice(ms, order, r) * Product(ResourceTypes \ {r})

\* Miners counted for the stone alone
MinersStoneOnly(scores) ==
    [Woodcutter |-> scores["Wood"], Miner |-> scores["Stone"],
     Farmer |-> scores["Food"]]

\* 2142-2144: the demand each harvesting job answers: wood; stone and iron
\* together (miners harvest both); food
DemandByJob(scores) ==
    [Woodcutter |-> scores["Wood"],
     Miner |-> scores["Stone"] + scores["Iron"],
     Farmer |-> scores["Food"]]

\* The demands by harvesting job in markets ms
LaborDemand(ms, order) ==
    DemandByJob([r \in ResourceTypes |-> DemandWeight(ms, order, r)])

\* A quarter of the roster
TargetQuarter(total) == total \div 4

\* 2139: 40% of the roster, the fraction dropped
TargetHarvesters(total) == (total * 4) \div 10

\* x.max(1.0) as usize
AtLeastOne(x) == IF x < 1 THEN 1 ELSE x

\* 2142-2144: the share of the target that the demand for one job asks for
JobTargets(d, target) ==
    LET total_demand == d.Woodcutter + d.Miner + d.Farmer
    IN [j \in Harvesters |->
          IF total_demand = 0 THEN 1
          ELSE AtLeastOne((d[j] * target) \div total_demand)]

\* 2147-2158: scaled down if the three together exceed the target
FinalTargets(d, target) ==
    LET t == JobTargets(d, target)
        target_sum == t["Woodcutter"] + t["Miner"] + t["Farmer"]
    IN IF target_sum > target
       THEN [j \in Harvesters |-> AtLeastOne((t[j] * target) \div target_sum)]
       ELSE t

\* 2192-2213: the job given to the next agent converted
NewJob(current, final, d) ==
    IF current["Woodcutter"] < final["Woodcutter"] THEN "Woodcutter"
    ELSE IF current["Miner"] < final["Miner"] THEN "Miner"
    ELSE IF current["Farmer"] < final["Farmer"] THEN "Farmer"
    ELSE IF d.Woodcutter >= d.Miner /\ d.Woodcutter >= d.Farmer
         THEN "Woodcutter"
    ELSE IF d.Miner >= d.Farmer THEN "Miner"
    ELSE "Farmer"

\* One conversion and no more in a run
NeededOne(target, harvesters) == 1

\* 2170: the harvesters missing
Needed(target, harvesters) == target - harvesters

\* 2176-2219: the roster is walked in order until enough are converted
RECURSIVE ConvertLoop(_, _, _, _, _, _)
ConvertLoop(acc, i, needed, final, d, protected) ==
    IF i > Len(acc.roster) \/ acc.converted >= needed THEN acc.roster
    ELSE IF Convertible(acc.roster[i], protected)
         THEN LET job == NewJob(acc.current, final, d)
              IN ConvertLoop(
                    [roster |-> [acc.roster EXCEPT ![i].job = job],
                     converted |-> acc.converted + 1,
                     current |-> [acc.current EXCEPT ![job] = @ + 1]],
                    i + 1, needed, final, d, protected)
         ELSE ConvertLoop(acc, i + 1, needed, final, d, protected)

\* Simulation::rebalance_labor, the markets iterated in the given order
rebalance_labor(st, order) ==
    LET ros == st.roster
        harvesters == CountJob(ros, Harvesters)
        target == TargetHarvesters(Len(ros))
        d == LaborDemand(st.markets, order)
    IN IF Len(ros) # 0 /\ harvesters < target
       THEN [st EXCEPT !.roster =
               ConvertLoop([roster |-> ros, converted |-> 0,
                            current |-> [j \in Harvesters |->
                                            CountJob(ros, {j})]],
                           1, Needed(target, harvesters),
                           FinalTargets(d, target), d, ProtectedClasses)]
       ELSE st

\* ---- a building under construction (buildings.rs 170-293) ----

\* construction_progress is counted in hundredths: 1.0 is 100
FullProgress == 100

\* 1536: progress_per_builder = 0.02
ProgressPerBuilder == 2

\* Building::remaining_resources (242-253): what is required and not held
remaining_resources(b) ==
    [r \in ResourceTypes |->
        IF b.current_resources[r] < b.required[r]
        THEN b.required[r] - b.current_resources[r] ELSE 0]

\* The fields remaining and complete are remaining_resources() and
\* is_complete() (255-257) of the building as it now is
Derived(b) ==
    [b EXCEPT !.remaining = remaining_resources(b),
              !.complete = b.construction_progress >= FullProgress]

\* Building::new (170-202): nothing held, no progress.  delivered keeps
\* the sum of all that add_resources was given.
SiteBuilding(type, owner, fund) ==
    Derived([owner |-> owner, construction_fund |-> fund,
             required |-> RequiredResources(type),
             current_resources |-> NoGoods, delivered |-> NoGoods,
             construction_progress |-> 0,
             remaining |-> NoGoods, complete |-> FALSE])

\* Building::add_resources (237-239)
add_resources(b, r, quantity) ==
    Derived([b EXCEPT !.current_resources[r] = @ + quantity,
                      !.delivered[r] = @ + quantity])

\* (required as f32 * progress_amount).ceil() as u32, progress_amount in
\* hundredths (269, 280)
NeededForTick(required, progress_amount) ==
    (required * progress_amount + 99) \div 100

\* Construction that asks for no resources and uses none
ConstructUnchecked(b, progress_amount) ==
    [building |->
        Derived([b EXCEPT !.construction_progress =
                    Min(@ + progress_amount, FullProgress)]),
     constructed |-> TRUE]

\* Construction that looks only at the wood held
ConstructWoodChecked(b, progress_amount) ==
    IF b.current_resources["Wood"]
           >= NeededForTick(b.required["Wood"], progress_amount)
    THEN [building |->
             Derived([b EXCEPT
                 !.current_resources =
                     [r \in ResourceTypes |->
                         saturating_sub(@[r],
                             NeededForTick(b.required[r], progress_amount))],
                 !.construction_progress =
                     Min(@ + progress_amount, FullProgress)]),
          constructed |-> TRUE]
    ELSE [building |-> b, constructed |-> FALSE]

\* Building::construct_with_resources (264-293): if of every required
\* resource the part needed for this much progress is held, that part is
\* consumed and the progress added, up to 1.0; otherwise nothing happens
construct_with_resources(b, progress_amount) ==
    LET can_construct ==
            \A r \in ResourceTypes :
                b.current_resources[r]
                    >= NeededForTick(b.required[r], progress_amount)
    IN IF can_construct
       THEN [building |->
                Derived([b EXCEPT
                    !.current_resources =
                        [r \in ResourceTypes |->
                            saturating_sub(@[r],
                                NeededForTick(b.required[r],
                                              progress_amount))],
                    !.construction_progress =
                        Min(@ + progress_amount, FullProgress)]),
             constructed |-> TRUE]
       ELSE [building |-> b, constructed |-> FALSE]

\* ---- assign_builders_to_buildings (1976-2072) ----

\* 1981-1987: the buildings not yet complete, the least advanced first;
\* buildings equally advanced keep their order (sort_by is stable)
IncompleteByProgress(bs) ==
    LET RECURSIVE Sorted(_)
        Sorted(S) ==
            IF S = {} THEN <<>>
            ELSE LET first ==
                        CHOOSE b \in S : \A c \in S :
                            \/ bs[b].construction_progress
                                  < bs[c].construction_progress
                            \/ /\ bs[b].construction_progress
                                     = bs[c].construction_progress
                               /\ b <= c
                 IN <<first>> \o Sorted(S \ {first})
    IN Sorted({b \in 1..Len(bs) : bs[b].construction_progress < FullProgress})

\* 2018-2021: the builders that are idle and have no carrying record, in
\* roster order
IdleBuilders(ros) ==
    LET RECURSIVE Walk(_)
        Walk(i) ==
            IF i > Len(ros) THEN <<>>
            ELSE (IF /\ ros[i].job = "Builder"
                     /\ ros[i].state = "Idle"
                     /\ ~ros[i].carrying_resources.some
                  THEN <<i>> ELSE <<>>) \o Walk(i + 1)
    IN Walk(1)

\* 2040-2071: the idle builders are dealt out over the incomplete
\* buildings in turn.  Each gets a carrying record that names its building
\* and holds nothing, and is set to Building if its building lacks
\* nothing, to Moving (towards a market) otherwise.
assign_builders_to_buildings(st) ==
    LET incomplete_buildings == IncompleteByProgress(st.buildings)
        idle_builders == IdleBuilders(st.roster)
        AssignedTo(n) ==
            incomplete_buildings[((n - 1) % Len(incomplete_buildings)) + 1]
        Lacks(b) ==
            SumOver(st.buildings[b].remaining, ResourceTypes) # 0
    IN IF incomplete_buildings = <<>> \/ idle_builders = <<>> THEN st
       ELSE [st EXCEPT !.roster =
               [i \in 1..Len(st.roster) |->
                  IF \E n \in 1..Len(idle_builders) : idle_builders[n] = i
                  THEN LET n == CHOOSE n \in 1..Len(idle_builders) :
                                    idle_builders[n] = i
                       IN [st.roster[i] EXCEPT
                             !.state = IF Lacks(AssignedTo(n))
                                       THEN "Moving" ELSE "Building",
                             !.carrying_resources = Assigned(AssignedTo(n))]
                  ELSE st.roster[i]]]

\* ---- tick_slow: deliveries and construction (1338-1550) ----

\* 1364, 1367, 1534: the builder is within 5.0 of the site of building b.
\* near_building is the building whose site the agent is within 5.0 of,
\* 0 for none; sites lie further than that from each other and from the
\* markets.
AtSite(a, b) == a.near_building = b

\* 1369-1383: what the builder carries is added to the building and the
\* carrying record is dropped
Deliver(st, i, b) ==
    LET c == st.roster[i].carrying_resources
        w == IF c.wood > 0
             THEN add_resources(st.buildings[b], "Wood", c.wood)
             ELSE st.buildings[b]
        ws == IF c.stone > 0 THEN add_resources(w, "Stone", c.stone) ELSE w
        wsi == IF c.iron > 0 THEN add_resources(ws, "Iron", c.iron) ELSE ws
    IN [st EXCEPT !.buildings[b] = wsi,
                  !.roster[i].carrying_resources = NoCarry]

\* 1534-1549: a builder at the site without a carrying record works on
\* the building if it holds the resources, and falls Idle if it does not
WorkOnSite(st, i, b) ==
    LET done == construct_with_resources(st.buildings[b], ProgressPerBuilder)
    IN IF done.constructed
       THEN [st EXCEPT !.buildings[b] = done.building,
                       !.roster[i].state = "Building"]
       ELSE [st EXCEPT !.roster[i].state = "Idle"]

\* 1358-1550, builder i at building b.  With a carrying record the
\* builder delivers if this is its building and it is at the site (1366).
\* Without one, and Moving or Building (1386), the purchase is attempted
\* only if there is a carrying record naming this building (1388-1389),
\* which in this branch there is not.  Then it works on the site if it is
\* there with no carrying record (1534).
BuilderAtBuilding(st, i, b) ==
    LET a == st.roster[i]
        c == a.carrying_resources
        s1 == IF c.some
              THEN IF c.target_building_id = b /\ AtSite(a, b)
                   THEN Deliver(st, i, b)
                   ELSE st
              ELSE IF a.state \in {"Moving", "Building"}
                   THEN IF /\ c.some
                           /\ c.target_building_id = b
                           /\ \E r \in ResourceTypes :
                                 st.buildings[b].remaining[r] > 0
                           /\ st.markets # <<>>
                        THEN IF a.near_market # 0
                             THEN purchase(st, i, b, a.near_market)
                             ELSE [st EXCEPT !.roster[i].state = "Moving"]
                        ELSE st
                   ELSE st
    IN IF st.roster[i].job # "Builder" THEN st
       ELSE IF AtSite(s1.roster[i], b)
                 /\ ~s1.roster[i].carrying_resources.some
            THEN WorkOnSite(s1, i, b)
            ELSE s1

\* 1342-1357: the buildings incomplete when the handler starts are taken
\* in turn, and at each of them every agent of the roster
RECURSIVE BuildersLoop(_, _, _)
BuildersLoop(st, i, b) ==
    IF i > Len(st.roster) THEN st
    ELSE BuildersLoop(BuilderAtBuilding(st, i, b), i + 1, b)

RECURSIVE BuildingsLoop(_, _)
BuildingsLoop(st, incomplete) ==
    IF incomplete = <<>> THEN st
    ELSE BuildingsLoop(BuildersLoop(st, 1, Head(incomplete)),
                       Tail(incomplete))

construction(st) ==
    LET RECURSIVE Incomplete(_)
        Incomplete(b) ==
            IF b > Len(st.buildings) THEN <<>>
            ELSE (IF ~st.buildings[b].complete THEN <<b>> ELSE <<>>)
                   \o Incomplete(b + 1)
    IN BuildingsLoop(st, Incomplete(1))

\* ---- the tick phases ----

\* The economy as one record, for the operations above
EconState ==
    [roster |-> roster, markets |-> markets, nodes |-> nodes,
     buildings |-> buildings, total_supply |-> total_supply,
     wage_timer |-> wage_timer, trade_log |-> trade_log,
     currency |-> currency]

\* tick_slow 839-1562, the economic operations in program order: loans
\* (965), harvesting (971), deposits (1046), order placement (1143),
\* matching and trade execution (1246), inter-market transfers (1293),
\* wages (1299)
tick_slow(st) ==
    LET s1 == process_burgher_activities(st)
        s2 == HarvestAll(s1)
        s3 == DepositAll(s2)
        s4 == PlaceOrdersAll(s3)
        s5 == TradeAll(s4)
        s6 == [s5 EXCEPT !.markets = balance_market_inventories(@)]
    IN PayWages(s6)

\* tick_very_slow 2231-2282, the economic operations in program order:
\* taxes (2242), fund replenishment (2245)
tick_very_slow(st) == replenish_construction_funds(collect_taxes(st))

\* The wallets and the construction funds of economy st together
Money(st) ==
    SumOver([i \in 1..Len(st.roster) |-> st.roster[i].wallet],
            1..Len(st.roster))
    + SumOver([b \in 1..Len(st.buildings) |->
                   st.buildings[b].construction_fund],
              1..Len(st.buildings))

\* The counters of a ledger nothing has happened to
IdleCurrency ==
    [inflation_rate |-> 0, deflation_events |-> 0, transaction_count |-> 0]

\* No operation has been applied on its own
NoCall == [op |-> "none"]

\* rebalance_labor has not run
NoLaborOp == [runs |-> 0, before |-> <<>>, first |-> <<>>, order |-> <<>>]

\* No construction operation has run
NoBuildOp ==
    [op |-> "none", agent |-> 0, building |-> 0, market |-> 0,
     before |-> [roster |-> <<>>, markets |-> <<>>, nodes |-> <<>>,
                 buildings |-> <<>>, total_supply |-> 0, wage_timer |-> 0,
                 trade_log |-> <<>>, currency |-> IdleCurrency]]

\* An economy with nobody and nothing in it
IdleEconomy ==
    /\ roster = <<>>
    /\ markets = <<>>
    /\ nodes = <<>>
    /\ buildings = <<>>
    /\ total_supply = 0
    /\ wage_timer = 0
    /\ ticks = 0
    /\ price_op = [op |-> "none", market |-> 0]
    /\ trade_log = <<>>
    /\ currency = IdleCurrency
    /\ ledger_before = [money |-> 0, supply |-> 0]
    /\ build_op = NoBuildOp
    /\ labor_op = NoLaborOp
    /\ call = NoCall

\* No tick phase running, no lock held, no API request in flight
IdleLocks ==
    /\ sched_phase = "idle"
    /\ sched_slot = 1
    /\ sched_prog = <<>>
    /\ sched_wait = FALSE
    /\ held = <<>>
    /\ api = [h \in Handlers |-> [at |-> "idle", lock |-> "none"]]

----------------------------------------------------------------------------
(* The order-book specification: a book drawn from a bounded set, then     *)
(* match_orders() called repeatedly with no new orders placed.             *)

OrderChoices(ids) ==
    [agent_id : ids, resource : Resources, quantity : 1..MaxQty,
     price_per_unit : Prices]

BookChoices(ids, n) == UNION {[1..k -> OrderChoices(ids)] : k \in 0..n}

\* The order book of a market as Market::new leaves it (market.rs 62-74)
IdleMatch ==
    /\ buy_orders = <<>>
    /\ sell_orders = <<>>
    /\ transaction_count = 0
    /\ executions = <<>>
    /\ match_log = <<>>
    /\ book_before = [buys |-> <<>>, sells |-> <<>>]
    /\ calls = 0

InitMatch ==
    /\ IdleLocks
    /\ IdleEconomy
    /\ \E nb \in 0..MaxOrders :
         /\ buy_orders \in BookChoices({"buyer"}, nb)
         /\ sell_orders \in BookChoices({"seller"}, MaxOrders - nb)
    /\ transaction_count = 0
    /\ executions = <<>>
    /\ match_log = <<>>
    /\ book_before = [buys |-> <<>>, sells |-> <<>>]
    /\ calls = 0

MatchOrdersCall ==
    /\ LET r == match_orders(buy_orders, sell_orders) IN
         /\ buy_orders' = r.buy_orders
         /\ sell_orders' = r.sell_orders
         /\ executions' = r.executions
         /\ match_log' = r.log
         /\ transaction_count' = transaction_count + Len(r.executions)
    /\ book_before' = [buys |-> buy_orders, sells |-> sell_orders]
    /\ calls' = Min(calls + 1, MaxCalls)
    /\ UNCHANGED <<lockVars, econVars>>

NextMatch == MatchOrdersCall

SpecMatch == InitMatch /\ [][NextMatch]_vars /\ WF_vars(MatchOrdersCall)

----------------------------------------------------------------------------
(* Properties of Market::match_orders *)

\* A buy order and a sell order of one resource whose prices cross
PriceCrossing(b, s) ==
    b.resource = s.resource /\ b.price_per_unit >= s.price_per_unit

CrossingIn(buys, sells) ==
    \E i \in 1..Len(buys) : \E j \in 1..Len(sells) :
        PriceCrossing(buys[i], sells[j])

CrossingExists == CrossingIn(buy_orders, sell_orders)

RECURSIVE SumTraded(_)
SumTraded(execs) ==
    IF execs = <<>> THEN 0 ELSE Head(execs).quantity + SumTraded(Tail(execs))

\* C4 as stated: when a call of match_orders() has returned, the book holds
\* no buy order and sell order of one resource with buy price >= sell price.
C4_NoCrossingAfterOneCall == calls >= 1 => ~CrossingExists

\* C4 as amended: a call matches each buy order against at most one sell
\* order, so it returns at most as many trades as the book had buy orders
\* and a crossing pair may remain; a call that returns no trade leaves no
\* crossing pair, and a call on a book with a crossing pair returns a trade.
C4_OneMatchPerBuyOrder ==
    calls >= 1 =>
        /\ Len(executions) <= Len(book_before.buys)
        /\ (executions = <<>> => ~CrossingExists)
        /\ (CrossingIn(book_before.buys, book_before.sells)
                => executions # <<>>)

\* A call has returned a trade and left a crossing pair in the book
C4_Witness == calls = 1 /\ executions # <<>> /\ CrossingExists

\* C5: each trade's quantity is the minimum of the two order quantities at
\* the moment of matching; the quantity removed from the buy orders equals
\* the quantity removed from the sell orders equals the sum of the trade
\* quantities; no order filled to zero stays in its list.
C5_QuantitiesConserved ==
    calls >= 1 =>
        /\ Len(match_log) = Len(executions)
        /\ \A k \in 1..Len(executions) :
              /\ executions[k].quantity <= match_log[k][1]
              /\ executions[k].quantity <= match_log[k][2]
              /\ executions[k].quantity \in {match_log[k][1], match_log[k][2]}
        /\ SumQty(book_before.buys) - SumQty(buy_orders) = SumTraded(executions)
        /\ SumQty(book_before.sells) - SumQty(sell_orders) = SumTraded(executions)
        /\ \A k \in 1..Len(buy_orders) : buy_orders[k].quantity > 0
        /\ \A k \in 1..Len(sell_orders) : sell_orders[k].quantity > 0

\* A call matched two orders of different quantities and left the rest of
\* the larger one in the book
C5_Witness ==
    /\ calls = 1
    /\ \E k \in 1..Len(executions) : match_log[k][1] # match_log[k][2]
    /\ Len(buy_orders) + Len(sell_orders)
         < Len(book_before.buys) + Len(book_before.sells)
    /\ buy_orders # <<>>

\* The book a call started from held exactly one buy order and one sell
\* order, of one resource and one quantity, with sell price <= buy price
OneCrossingPairBefore ==
    /\ Len(book_before.buys) = 1
    /\ Len(book_before.sells) = 1
    /\ book_before.buys[1].resource = book_before.sells[1].resource
    /\ book_before.buys[1].quantity = book_before.sells[1].quantity
    /\ book_before.sells[1].price_per_unit <= book_before.buys[1].price_per_unit

\* C6: one buy order (q, b) and one sell order (q, s <= b) of one resource
\* give exactly one trade of q at (b + s) / 2 and leave both lists empty.
C6_SinglePairTrade ==
    (calls >= 1 /\ OneCrossingPairBefore) =>
        /\ Len(executions) = 1
        /\ executions[1].quantity = book_before.buys[1].quantity
        /\ 2 * executions[1].price_per_unit =
              book_before.buys[1].price_per_unit
                + book_before.sells[1].price_per_unit
        /\ executions[1].resource = book_before.buys[1].resource
        /\ buy_orders = <<>>
        /\ sell_orders = <<>>

\* The scenario of the specification, scaled to the quantity bound: buy at
\* 6.0 and sell at 4.0 give one trade at 5.0
C6_Witness ==
    /\ calls = 1
    /\ OneCrossingPairBefore
    /\ book_before.buys[1].price_per_unit = 600
    /\ book_before.sells[1].price_per_unit = 400
    /\ book_before.buys[1].quantity = MaxQty
    /\ Len(executions) = 1
    /\ executions[1].price_per_unit = 500

\* C7: with no new orders, repeated calls eventually reach a book with no
\* crossing pair (and it stays so); every call made while a crossing pair
\* exists executes at least one trade.
C7_EventuallyCleared ==
    /\ <>[](~CrossingExists)
    /\ [][CrossingExists => executions' # <<>>]_vars

\* A second call was needed and cleared the book: the first call left a
\* crossing pair, the second traded it away
C7_Witness ==
    /\ calls = 2
    /\ CrossingIn(book_before.buys, book_before.sells)
    /\ executions # <<>>
    /\ ~CrossingExists

----------------------------------------------------------------------------
(* The lock specification: the scheduler loop of main.rs 42-61 runs one    *)
(* tick phase at a time; API request handlers run concurrently.            *)

InitLock == IdleMatch /\ IdleLocks /\ IdleEconomy

\* tokio::select! picks the phase whose timer fired
SchedSelectPhase ==
    /\ sched_phase = "idle"
    /\ \E p \in Phases : sched_phase' = p
    /\ sched_slot' = 1
    /\ UNCHANGED <<sched_prog, sched_wait, held, api>>
    /\ UNCHANGED <<matchVars, econVars>>

\* The next step of the phase starts; its branch fixes the lock events
SchedStartStep ==
    /\ sched_phase \in Phases
    /\ sched_prog = <<>>
    /\ sched_slot <= Len(PhaseSteps(sched_phase))
    /\ \E prog \in PhaseSteps(sched_phase)[sched_slot] : sched_prog' = prog
    /\ sched_slot' = sched_slot + 1
    /\ UNCHANGED <<sched_phase, sched_wait, held, api>>
    /\ UNCHANGED <<matchVars, econVars>>

\* The scheduler calls read() or write() on a lock
SchedRequest ==
    /\ SchedAt("acq")
    /\ ~sched_wait
    /\ sched_wait' = TRUE
    /\ UNCHANGED <<sched_phase, sched_slot, sched_prog, held, api>>
    /\ UNCHANGED <<matchVars, econVars>>

\* The call returns the guard
SchedGrant ==
    /\ SchedAt("acq")
    /\ sched_wait
    /\ CanGrantSched(Head(sched_prog).lock, Head(sched_prog).mode)
    /\ held' = Append(held, <<Head(sched_prog).lock, Head(sched_prog).mode>>)
    /\ sched_prog' = Tail(sched_prog)
    /\ sched_wait' = FALSE
    /\ UNCHANGED <<sched_phase, sched_slot, api>>
    /\ UNCHANGED <<matchVars, econVars>>

\* A guard is dropped
SchedRelease ==
    /\ SchedAt("rel")
    /\ held' = DropGuard(held, Head(sched_prog).lock)
    /\ sched_prog' = Tail(sched_prog)
    /\ UNCHANGED <<sched_phase, sched_slot, sched_wait, api>>
    /\ UNCHANGED <<matchVars, econVars>>

\* The phase returns to the select loop
SchedFinishPhase ==
    /\ sched_phase \in Phases
    /\ sched_prog = <<>>
    /\ sched_slot > Len(PhaseSteps(sched_phase))
    /\ sched_phase' = "idle"
    /\ sched_slot' = 1
    /\ UNCHANGED <<sched_prog, sched_wait, held, api>>
    /\ UNCHANGED <<matchVars, econVars>>

\* A handler calls read() on the metrics or the world state
ApiRequest(h) ==
    /\ api[h].at = "idle"
    /\ \E l \in ApiLocks : api' = [api EXCEPT ![h] = [at |-> "wait", lock |-> l]]
    /\ UNCHANGED <<sched_phase, sched_slot, sched_prog, sched_wait, held>>
    /\ UNCHANGED <<matchVars, econVars>>

ApiGrant(h) ==
    /\ api[h].at = "wait"
    /\ CanGrantApi(api[h].lock)
    /\ api' = [api EXCEPT ![h].at = "hold"]
    /\ UNCHANGED <<sched_phase, sched_slot, sched_prog, sched_wait, held>>
    /\ UNCHANGED <<matchVars, econVars>>

\* The handler has built its JSON answer; the guard is dropped
ApiRelease(h) ==
    /\ api[h].at = "hold"
    /\ api' = [api EXCEPT ![h] = [at |-> "idle", lock |-> "none"]]
    /\ UNCHANGED <<sched_phase, sched_slot, sched_prog, sched_wait, held>>
    /\ UNCHANGED <<matchVars, econVars>>

SchedStep ==
    \/ SchedStartStep
    \/ SchedRequest
    \/ SchedGrant
    \/ SchedRelease
    \/ SchedFinishPhase

NextLock ==
    \/ SchedSelectPhase
    \/ SchedStep
    \/ \E h \in Handlers : ApiRequest(h) \/ ApiGrant(h) \/ ApiRelease(h)

\* Fairness: a started phase keeps running (the scheduler task is never
\* starved of its thread), a handler that holds a guard finishes, and the
\* lock is eventually fair to a waiting reader.
SpecLock ==
    /\ InitLock
    /\ [][NextLock]_vars
    /\ WF_vars(SchedStep)
    /\ \A h \in Handlers : WF_vars(ApiRelease(h)) /\ SF_vars(ApiGrant(h))

----------------------------------------------------------------------------
(* Properties of the lock discipline *)

\* The lock the scheduler is requesting
Requested == Head(sched_prog).lock

\* C1 as stated: whenever the scheduler acquires a guarded lock, every
\* guarded lock it holds comes earlier in the order Resource Ledger ->
\* Market -> Building Registry -> Agent Roster -> Currency Ledger.
C1_LockOrderRespected ==
    (sched_wait /\ IsGuarded(Requested)) =>
        \A k \in 1..Len(held) :
            IsGuarded(held[k][1]) => Rank(held[k][1]) <= Rank(Requested)

\* The scheduler requests a lock it holds in a conflicting mode
SelfConflict ==
    /\ sched_wait
    /\ \/ SchedHolds(Requested, "w")
       \/ Head(sched_prog).mode = "w" /\ SchedHolds(Requested, "r")

\* C2: no reachable state is a deadlock: the scheduler never requests a lock
\* it holds in a conflicting mode, every state in which a task waits has a
\* task that can take a step, and every wait for a lock ends.
C2_NoDeadlock ==
    /\ [](~SelfConflict)
    /\ []((sched_wait \/ \E h \in Handlers : api[h].at = "wait")
            => \/ ENABLED SchedStep
               \/ \E h \in Handlers : ENABLED ApiGrant(h) \/ ENABLED ApiRelease(h))
    /\ (sched_wait ~> ~sched_wait)
    /\ \A h \in Handlers : (api[h].at = "wait") ~> (api[h].at = "hold")

\* The scheduler waits for the world-state write lock while a handler
\* reads the world state and the other handler waits behind the writer
C2_Witness ==
    /\ WriterWaiting("WorldState")
    /\ ApiHolds("WorldState")
    /\ \E h \in Handlers : api[h] = [at |-> "wait", lock |-> "WorldState"]

----------------------------------------------------------------------------
(* The economy specification: a small world some way into a run, then the  *)
(* tick phases in any order.                                               *)

MaxTicks == 3       \* slow and very slow ticks in a behaviour

\* The market the agents of this world trade at: find_nearest_market picks
\* the same one for all of them
HomeMarket == 1

\* Where the movement code and the needs cycle can leave an agent: away
\* from everything, working within reach of the node, or trading within
\* reach of the market
Situations ==
    {[state |-> "Idle", near_market |-> 0, near_node |-> 0],
     [state |-> "Working", near_market |-> 0, near_node |-> 1],
     [state |-> "Trading", near_market |-> HomeMarket, near_node |-> 0]}

\* The purses drawn for the peasant and the burgher: the starting purses,
\* or what they hold after some hours of wages and deposits
PurseChoices ==
    {<<StartingWallet("Peasant"), StartingWallet("Burgher")>>,
     <<200 * Gold, 600 * Gold>>}

\* The goods drawn for the noble: none, one piece of wood, or a stock of
\* wood, food and stone beyond its needs
GoodsChoices ==
    {NoGoods,
     [NoGoods EXCEPT !["Wood"] = 1],
     [NoGoods EXCEPT !["Wood"] = 12, !["Food"] = 20, !["Stone"] = 10]}

\* A market that holds q pieces of wood, priced by update_prices with no
\* buy order outstanding
WoodMarket(q) == update_prices(add_inventory(NewMarket, "Wood", q))

\* Building::new: nothing delivered, nothing funded.  remaining is
\* remaining_resources() (buildings.rs 242-253).
NewBuilding(owner, wood, stone) ==
    [owner |-> owner, construction_fund |-> 0,
     remaining |-> [NoGoods EXCEPT !["Wood"] = wood, !["Stone"] = stone],
     complete |-> FALSE]

\* Simulation::new opens the ledger with 20000 gold (simulation.rs 176)
InitialSupply == 20000 * Gold

\* Simulation::new builds the world at random; this is a corner of it a
\* while later: a woodcutter, a builder and a noble, two markets whose
\* wood stocks are just within the transfer threshold of each other, a
\* nearly exhausted tree, a peasant house (30 wood, 10 stone) and a
\* public farming shed (20 wood, 5 stone) not yet funded, and the wage
\* timer one tick short of an hour.
Init ==
    /\ IdleMatch
    /\ IdleLocks
    /\ \E purses \in PurseChoices, goods \in GoodsChoices :
         roster = <<NewAgent("Peasant", "Woodcutter", purses[1], NoGoods),
                    NewAgent("Burgher", "Builder", purses[2], NoGoods),
                    NewAgent("Noble", "Unemployed",
                             StartingWallet("Noble"), goods)>>
    /\ markets = <<WoodMarket(105), WoodMarket(5)>>
    /\ nodes = <<[resource_type |-> "Tree", quantity |-> 3]>>
    /\ buildings = <<NewBuilding(1, 30, 10), NewBuilding(0, 20, 5)>>
    /\ total_supply = InitialSupply
    /\ currency = IdleCurrency
    /\ wage_timer = WagePeriod - 1
    /\ ticks = 0
    /\ price_op = [op |-> "none", market |-> 0]
    /\ trade_log = <<>>
    /\ ledger_before = [money |-> Money(EconState), supply |-> InitialSupply]
    /\ build_op = NoBuildOp
    /\ labor_op = NoLaborOp
    /\ call = NoCall

\* tick_fast 406-833 and the needs cycle of tick_slow 870-959: agent i
\* walks and changes what it is doing.  Neither touches a wallet, an
\* inventory, a market, a node or a building.
AgentMoves(i) ==
    /\ \E sit \in Situations :
         /\ sit # [state |-> roster[i].state,
                   near_market |-> roster[i].near_market,
                   near_node |-> roster[i].near_node]
         /\ roster' = [roster EXCEPT ![i].state = sit.state,
                                     ![i].near_market = sit.near_market,
                                     ![i].near_node = sit.near_node]
    /\ ledger_before' = [money |-> Money(EconState), supply |-> total_supply]
    /\ UNCHANGED <<markets, nodes, buildings, total_supply, wage_timer,
                   ticks, price_op, trade_log, currency, build_op,
                   labor_op, call>>
    /\ UNCHANGED <<matchVars, lockVars>>

\* Install the economy st as the next state
Becomes(st) ==
    /\ roster' = st.roster
    /\ markets' = st.markets
    /\ nodes' = st.nodes
    /\ buildings' = st.buildings
    /\ total_supply' = st.total_supply
    /\ wage_timer' = st.wage_timer
    /\ trade_log' = st.trade_log
    /\ currency' = st.currency
    /\ ledger_before' = [money |-> Money(EconState), supply |-> total_supply]

TickSlow ==
    /\ ticks < MaxTicks
    /\ ticks' = ticks + 1
    /\ Becomes(tick_slow(EconState))
    /\ UNCHANGED <<price_op, build_op, labor_op, call, matchVars, lockVars>>

TickVerySlow ==
    /\ ticks < MaxTicks
    /\ ticks' = ticks + 1
    /\ Becomes(tick_very_slow(EconState))
    /\ UNCHANGED <<price_op, build_op, labor_op, call, matchVars, lockVars>>

Next ==
    \/ \E i \in 1..Len(roster) : AgentMoves(i)
    \/ TickSlow
    \/ TickVerySlow

Spec == Init /\ [][Next]_vars

----------------------------------------------------------------------------
(* The price specification: two markets with wood stocks drawn from a      *)
(* bounded set; goods are added, buy orders are placed, prices are updated *)
(* and the stocks are balanced, in any order.                              *)

MaxStock == 1       \* add_inventory is not called on a larger stock

\* The wood stocks drawn: empty, one piece, and enough to be in surplus
StockChoices == {0, 1, 120}

WoodChoices == {NoGood} \cup {NewGood("Wood", q) : q \in StockChoices}

\* The buy orders placed: MaxQty pieces of wood or stone
PriceOrderChoices ==
    [agent_id : {"buyer"}, resource : Resources, quantity : {MaxQty},
     price_per_unit : {BasePrice("Wood")}]

InitPrice ==
    /\ IdleMatch
    /\ IdleLocks
    /\ roster = <<>>
    /\ \E g1 \in WoodChoices, g2 \in WoodChoices :
         markets = <<[NewMarket EXCEPT !.inventory["Wood"] = g1],
                     [NewMarket EXCEPT !.inventory["Wood"] = g2]>>
    /\ nodes = <<>>
    /\ buildings = <<>>
    /\ total_supply = 0
    /\ wage_timer = 0
    /\ ticks = 0
    /\ price_op = [op |-> "none", market |-> 0]
    /\ trade_log = <<>>
    /\ currency = IdleCurrency
    /\ ledger_before = [money |-> 0, supply |-> 0]
    /\ build_op = NoBuildOp
    /\ labor_op = NoLaborOp
    /\ call = NoCall

PriceUnchanged ==
    UNCHANGED <<roster, nodes, buildings, total_supply, wage_timer, ticks,
                trade_log, currency, ledger_before, build_op, labor_op, call,
                matchVars, lockVars>>

\* Market::add_inventory on market k
PriceAddInventory(k) ==
    /\ \E r \in Resources, q \in 0..1 :
         /\ markets[k].inventory[r].quantity + q <= MaxStock
         /\ markets' = [markets EXCEPT ![k] = add_inventory(@, r, q)]
    /\ price_op' = [op |-> "other", market |-> 0]
    /\ PriceUnchanged

\* Market::place_buy_order on the home market
PricePlaceBuyOrder ==
    /\ Len(markets[HomeMarket].buy_orders) < MaxOrders
    /\ \E o \in PriceOrderChoices :
         markets' = [markets EXCEPT ![HomeMarket].buy_orders = Append(@, o)]
    /\ price_op' = [op |-> "other", market |-> 0]
    /\ PriceUnchanged

\* Market::update_prices on market k
PriceUpdate(k) ==
    /\ markets' = [markets EXCEPT ![k] = update_prices(@)]
    /\ price_op' = [op |-> "update_prices", market |-> k]
    /\ PriceUnchanged

\* Simulation::balance_market_inventories
PriceBalance ==
    /\ markets' = balance_market_inventories(markets)
    /\ price_op' = [op |-> "other", market |-> 0]
    /\ PriceUnchanged

NextPrice ==
    \/ \E k \in 1..Len(markets) : PriceAddInventory(k)
    \/ PricePlaceBuyOrder
    \/ \E k \in 1..Len(markets) : PriceUpdate(k)
    \/ PriceBalance

SpecPrice == InitPrice /\ [][NextPrice]_vars

\* Every stocked good of every market is priced within its bounds
PriceWithinBounds(m) ==
    \A r \in ResourceTypes :
        m.inventory[r].stocked =>
            /\ 2 * m.inventory[r].current_price >= m.inventory[r].base_price
            /\ m.inventory[r].current_price <= 3 * m.inventory[r].base_price

\* C9: for every market and every resource it stocks, current_price lies
\* within [0.5 x base_price, 3 x base_price] in every reachable state.
C9_PriceWithinBounds ==
    \A k \in 1..Len(markets) : PriceWithinBounds(markets[k])

\* update_prices has priced the one piece of stone of the first market,
\* under a demand of six, at the upper bound, and the empty wood stock of
\* the second market at 1.6 x base
C9_Witness ==
    /\ price_op.op = "update_prices"
    /\ markets[1].inventory["Stone"].quantity = 1
    /\ Demand(markets[1].buy_orders, "Stone") >= 6
    /\ markets[1].inventory["Stone"].current_price = 3 * BasePrice("Stone")
    /\ markets[2].inventory["Wood"].stocked
    /\ markets[2].inventory["Wood"].quantity = 0
    /\ markets[2].inventory["Wood"].current_price
          = (16 * BasePrice("Wood")) \div 10

\* update_prices was the last operation on market k, which stocks wood at
\* base price 5.0 and has no buy order
UpdatedWithoutDemand(k) ==
    /\ price_op = [op |-> "update_prices", market |-> k]
    /\ markets[k].inventory["Wood"].stocked
    /\ markets[k].inventory["Wood"].base_price = 5 * Gold
    /\ markets[k].buy_orders = <<>>

\* C10 as stated: for a market whose wood has base price 5.0 and which has
\* zero buy orders, wood's current price is still 5.0 after update_prices().
C10_PriceStaysAtBase ==
    \A k \in 1..Len(markets) :
        UpdatedWithoutDemand(k) =>
            markets[k].inventory["Wood"].current_price = 5 * Gold

\* C10, amended: for a market whose wood has base price 5.0 and which has
\* zero buy orders, wood's current price after update_prices() is 4.0
\* (0.8 x base) when wood is in stock and 8.0 (1.6 x base) when the stock
\* is empty.
C10_PriceWithoutDemand ==
    \A k \in 1..Len(markets) :
        UpdatedWithoutDemand(k) =>
            markets[k].inventory["Wood"].current_price =
                IF markets[k].inventory["Wood"].quantity > 0
                THEN 4 * Gold ELSE 8 * Gold

\* update_prices has run on a market with wood in stock and no buy order
C10_Witness ==
    \E k \in 1..Len(markets) :
        /\ UpdatedWithoutDemand(k)
        /\ markets[k].inventory["Wood"].quantity > 0
        /\ markets[k].inventory["Wood"].current_price = 4 * Gold

----------------------------------------------------------------------------
(* The construction specification: a builder assigned to a building stands *)
(* at a market; the building's needs and fund and the market's stocks and  *)
(* prices are drawn.  The builder buys, nobles order public buildings and  *)
(* peasants start houses and sheds, in any order.                          *)
(*                                                                         *)
(* The purchase is applied as the block 1413-1518 computes it.  In         *)
(* tick_slow the block stands in a branch entered when the builder's       *)
(* carrying_resources is None (1387) under a test that it is Some (1389).  *)

MaxBuildings == 2   \* no building is started beyond this many

\* The wood the market holds and the price it asks: 4.00 with no demand,
\* the base price, twice the base price
BuildWoodStocks == {0, 5, 30}

BuildWoodPrices == {400, BasePrice("Wood"), 2 * BasePrice("Wood")}

BuildStoneStocks == {0, 30}

\* The funds drawn: none, 100 gold, 1500 gold
BuildFunds == {0, 100 * Gold, 1500 * Gold}

\* The market of the construction specification
BuildMarket(wood, wood_price, stone) ==
    [add_inventory(add_inventory(add_inventory(NewMarket, "Wood", wood),
                                 "Stone", stone), "Iron", 10)
     EXCEPT !.inventory["Wood"].current_price = wood_price]

InitBuild ==
    /\ IdleMatch
    /\ IdleLocks
    /\ \E purse \in {StartingWallet("Peasant"), 600 * Gold} :
         roster = <<[NewAgent("Burgher", "Builder",
                              StartingWallet("Burgher"), NoGoods)
                     EXCEPT !.state = "Moving", !.near_market = HomeMarket,
                            !.carrying_resources = Assigned(1)],
                    NewAgent("Peasant", "Farmer", purse, NoGoods),
                    NewAgent("Noble", "Unemployed",
                             StartingWallet("Noble"), NoGoods),
                    NewAgent("King", "Unemployed",
                             StartingWallet("King"), NoGoods)>>
    /\ \E wood \in BuildWoodStocks, wood_price \in BuildWoodPrices,
          stone \in BuildStoneStocks :
         markets = <<BuildMarket(wood, wood_price, stone)>>
    /\ nodes = <<>>
    /\ \E fund \in BuildFunds, wood \in {5, 100}, stone \in {0, 10} :
         buildings = <<[NewBuilding(2, wood, stone)
                        EXCEPT !.construction_fund = fund]>>
    /\ total_supply = InitialSupply
    /\ currency = IdleCurrency
    /\ wage_timer = 0
    /\ ticks = 0
    /\ price_op = [op |-> "none", market |-> 0]
    /\ trade_log = <<>>
    /\ ledger_before = [money |-> Money(EconState), supply |-> InitialSupply]
    /\ build_op = NoBuildOp
    /\ labor_op = NoLaborOp
    /\ call = NoCall

\* Install the economy st as the result of construction operation op
BuildBecomes(st, op, i, b, k) ==
    /\ Becomes(st)
    /\ build_op' = [op |-> op, agent |-> i, building |-> b, market |-> k,
                    before |-> EconState]
    /\ UNCHANGED <<ticks, price_op, labor_op, call, matchVars, lockVars>>

\* 1387-1532: one purchase attempt of builder i for building b at market k
BuilderPurchase(i, b, k) ==
    /\ AtMarketFor(EconState, i, b, k)
    /\ BuildBecomes(purchase(EconState, i, b, k), "purchase", i, b, k)

\* process_noble_orders, for the noble whose dice say so
NobleOrders(i) ==
    /\ Len(buildings) < MaxBuildings
    /\ \E type \in {"Farm", "Tavern"} :
         /\ noble_order(EconState, i, type) # EconState
         /\ BuildBecomes(noble_order(EconState, i, type), "noble_order",
                         i, Len(buildings) + 1, 0)

\* process_peasant_building, for the peasant whose dice say so
PeasantBuilds(i) ==
    /\ Len(buildings) < MaxBuildings
    /\ \E type \in {"PeasantHouse", "FarmingShed"} :
         /\ peasant_building(EconState, i, type) # EconState
         /\ BuildBecomes(peasant_building(EconState, i, type),
                         "peasant_building", i, Len(buildings) + 1, 0)

NextBuild ==
    \/ \E i \in 1..Len(roster), b \in 1..Len(buildings),
          k \in 1..Len(markets) : BuilderPurchase(i, b, k)
    \/ \E i \in 1..Len(roster) : NobleOrders(i)
    \/ \E i \in 1..Len(roster) : PeasantBuilds(i)

SpecBuild == InitBuild /\ [][NextBuild]_vars

----------------------------------------------------------------------------
(* The ledger specification: a CurrencySystem constructed with a supply    *)
(* drawn from a bounded set, then minted, burned and recorded on in any    *)
(* order.                                                                  *)

MaxLedgerOps == 3   \* operations applied to one ledger

\* The supplies a ledger is constructed with: none, 1000 gold, the 10000
\* gold of Default, the 20000 gold of Simulation::new
SupplyChoices == {0, 1000 * Gold, 10000 * Gold, InitialSupply}

\* The amounts minted, burned and recorded
AmountChoices == {0, 500 * Gold, 12000 * Gold}

\* The ledger operation just applied, with the ledger it was applied to
LedgerOp(op, amount) ==
    [money |-> 0, supply |-> total_supply, op |-> op, amount |-> amount,
     currency |-> currency]

InitLedger ==
    /\ IdleMatch
    /\ IdleLocks
    /\ roster = <<>>
    /\ markets = <<>>
    /\ nodes = <<>>
    /\ buildings = <<>>
    /\ \E s \in SupplyChoices :
         /\ total_supply = NewLedger(s).total_supply
         /\ ledger_before = [money |-> 0, supply |-> s, op |-> "new",
                             amount |-> s, currency |-> IdleCurrency]
    /\ currency = IdleCurrency
    /\ wage_timer = 0
    /\ ticks = 0
    /\ price_op = [op |-> "none", market |-> 0]
    /\ trade_log = <<>>
    /\ build_op = NoBuildOp
    /\ labor_op = NoLaborOp
    /\ call = NoCall

\* Install ledger c as the result of operation op
LedgerBecomes(c, op, amount) ==
    /\ ticks < MaxLedgerOps
    /\ ticks' = ticks + 1
    /\ total_supply' = c.total_supply
    /\ currency' = WithLedger(EconState, c).currency
    /\ ledger_before' = LedgerOp(op, amount)
    /\ UNCHANGED <<roster, markets, nodes, buildings, wage_timer, price_op,
                   trade_log, build_op, labor_op, call, matchVars, lockVars>>

LedgerMint ==
    \E a \in AmountChoices :
        LedgerBecomes(mint_currency(LedgerOf(EconState), a), "mint", a)

LedgerBurn ==
    \E a \in AmountChoices :
        LedgerBecomes(burn_currency(LedgerOf(EconState), a), "burn", a)

LedgerRecord ==
    \E a \in AmountChoices :
        LedgerBecomes(record_transaction(LedgerOf(EconState), a), "record", a)

NextLedger == LedgerMint \/ LedgerBurn \/ LedgerRecord

SpecLedger == InitLedger /\ [][NextLedger]_vars

----------------------------------------------------------------------------
(* Properties of the ledger                                                *)

\* C16: minting a positive amount, on any ledger and on a newly
\* constructed one of any supply, raises total_supply by exactly the
\* amount and leaves inflation_rate strictly greater than it was.
C16_MintRaisesInflation ==
    (ledger_before.op = "mint" /\ ledger_before.amount > 0) =>
        /\ total_supply = ledger_before.supply + ledger_before.amount
        /\ currency.inflation_rate > ledger_before.currency.inflation_rate

\* C17: total_supply falls only by burn_currency and is never negative;
\* burn_currency leaves the larger of supply - amount and 0;
\* record_transaction adds one to the transaction counter and changes
\* nothing else.
C17_SupplyMonotone ==
    /\ total_supply >= 0
    /\ ledger_before.op \in {"mint", "record"}
          => total_supply >= ledger_before.supply
    /\ ledger_before.op = "burn" =>
          total_supply =
              IF ledger_before.supply - ledger_before.amount > 0
              THEN ledger_before.supply - ledger_before.amount ELSE 0
    /\ ledger_before.op = "record" =>
          /\ total_supply = ledger_before.supply
          /\ currency = [ledger_before.currency EXCEPT
                           !.transaction_count = @ + 1]

\* More was burned than there was, and a transaction was recorded after it
C17_Witness ==
    /\ ledger_before.op = "record"
    /\ currency.deflation_events > 0
    /\ total_supply = 0
    /\ currency.transaction_count = 1

----------------------------------------------------------------------------
(* The labor specification: agents are spawned one at a time into a world  *)
(* whose markets are drawn, and rebalance_labor runs between the spawns.   *)

MaxRoster == 5      \* agents spawned
MaxRuns == 2        \* runs of rebalance_labor between two spawns

\* The agents spawned: by class and job
SpawnChoices ==
    {<<"Peasant", "Unemployed">>, <<"Burgher", "Builder">>,
     <<"Noble", "Unemployed">>, <<"Knight", "Builder">>,
     <<"Peasant", "Farmer">>}

\* The markets drawn: none; two wood markets asking different prices; a
\* market stocked with wood, stone and iron and none of food
LaborMarketChoices ==
    {<<>>,
     <<WoodMarket(5),
       [WoodMarket(25) EXCEPT
          !.inventory["Wood"].current_price = 2 * BasePrice("Wood")]>>,
     <<BuildMarket(30, BasePrice("Wood"), 30)>>}

\* The orders in which a map of n markets may be iterated
IterationOrders(n) ==
    {order \in [1..n -> 1..n] : \A k \in 1..n : \E m \in 1..n : order[m] = k}

InitLabor ==
    /\ IdleMatch
    /\ IdleLocks
    /\ roster = <<>>
    /\ markets \in LaborMarketChoices
    /\ nodes = <<>>
    /\ buildings = <<SiteBuilding("PeasantHouse", 0, 0)>>
    /\ total_supply = InitialSupply
    /\ currency = IdleCurrency
    /\ wage_timer = 0
    /\ ticks = 0
    /\ price_op = [op |-> "none", market |-> 0]
    /\ trade_log = <<>>
    /\ ledger_before = [money |-> 0, supply |-> InitialSupply]
    /\ build_op = NoBuildOp
    /\ labor_op = NoLaborOp
    /\ call = NoCall

LaborUnchanged ==
    UNCHANGED <<markets, nodes, buildings, total_supply, wage_timer, ticks,
                price_op, trade_log, currency, ledger_before, build_op,
                call, matchVars, lockVars>>

\* LifecycleLayer::spawn_agent (lifecycle.rs 39-42)
LaborSpawn ==
    /\ Len(roster) < MaxRoster
    /\ \E kind \in SpawnChoices :
         roster' = Append(roster, NewAgent(kind[1], kind[2],
                                           StartingWallet(kind[1]), NoGoods))
    /\ labor_op' = NoLaborOp
    /\ LaborUnchanged

\* Simulation::rebalance_labor
RebalanceLabor ==
    /\ labor_op.runs < MaxRuns
    /\ \E order \in IterationOrders(Len(markets)) :
         /\ roster' = rebalance_labor(EconState, order).roster
         /\ labor_op' = [runs |-> labor_op.runs + 1, before |-> roster,
                         first |-> IF labor_op.runs = 0 THEN roster
                                   ELSE labor_op.first,
                         order |-> order]
    /\ LaborUnchanged

\* Simulation::assign_builders_to_buildings, when it assigns someone
LaborAssign ==
    /\ roster' = assign_builders_to_buildings(EconState).roster
    /\ roster' # roster
    /\ labor_op' = NoLaborOp
    /\ LaborUnchanged

NextLabor == LaborSpawn \/ RebalanceLabor \/ LaborAssign

SpecLabor == InitLabor /\ [][NextLabor]_vars

----------------------------------------------------------------------------
(* Properties of rebalance_labor                                           *)

\* rebalance_labor has just run
Rebalanced == labor_op.runs > 0

\* The harvesters of a roster, and its agents open to conversion
HarvesterCount(ros) == CountJob(ros, Harvesters)

OpenCount(ros) ==
    Cardinality({i \in 1..Len(ros) :
                    /\ ros[i].job \in {"Builder", "Unemployed"}
                    /\ ros[i].social_class
                          \notin {"King", "Noble", "Knight", "Soldier"}})

\* C18: rebalance_labor never changes the job of a king, noble, knight or
\* soldier.
C18_ProtectedKeepJobs ==
    Rebalanced =>
        /\ Len(roster) = Len(labor_op.before)
        /\ \A i \in 1..Len(roster) :
             labor_op.before[i].social_class
                 \in {"King", "Noble", "Knight", "Soldier"}
               => roster[i] = labor_op.before[i]

\* A knight stayed a builder in a run that made a later agent a harvester
C18_Witness ==
    /\ Rebalanced
    /\ \E i, j \in 1..Len(roster) :
         /\ i < j
         /\ labor_op.before[i].social_class = "Knight"
         /\ roster[i].job = "Builder"
         /\ roster[j].job # labor_op.before[j].job

\* C19: a second run of rebalance_labor straight after a first, with
\* nothing changed in between, changes no job.
C19_SecondRunChangesNothing ==
    labor_op.runs >= 2 => roster = labor_op.before

\* A second run after a first that converted two agents
C19_Witness ==
    /\ labor_op.runs >= 2
    /\ HarvesterCount(roster) >= HarvesterCount(labor_op.first) + 2

\* C20: rebalance_labor never lowers the number of harvesters, and after
\* it there are at least as many as the smaller of 40% of the roster
\* (rounded down) and the harvesters before plus the builders and
\* unemployed of unprotected classes before.
C20_HarvestersReachTarget ==
    Rebalanced =>
        /\ HarvesterCount(roster) >= HarvesterCount(labor_op.before)
        /\ HarvesterCount(roster) >=
             Min((Len(roster) * 4) \div 10,
                 HarvesterCount(labor_op.before) + OpenCount(labor_op.before))

\* A run that raised the harvesters to the target of 2 in a roster of 5,
\* and a run that ran out of agents to convert below the target
C20_Witness ==
    /\ Rebalanced
    /\ Len(roster) = 5
    /\ HarvesterCount(labor_op.before) = 0
    /\ HarvesterCount(roster) \in {1, 2}
    /\ HarvesterCount(roster) = Min(2, OpenCount(labor_op.before))

----------------------------------------------------------------------------
(* Properties of the economy                                               *)

C8_NothingNegative ==
    /\ \A i \in 1..Len(roster) :
          /\ roster[i].wallet >= 0
          /\ \A r \in ResourceTypes : roster[i].inventory[r] >= 0
    /\ \A k \in 1..Len(buildings) : buildings[k].construction_fund >= 0
    /\ \A k \in 1..Len(markets) :
          \A r \in ResourceTypes : markets[k].inventory[r].quantity >= 0
    /\ \A k \in 1..Len(nodes) : nodes[k].quantity >= 0

\* The tree gave its last 3 pieces to a harvest that asked for 5, the
\* builder bought food and wood and was refused the stone it could no
\* longer pay for, and the noble paid into the fund of the public shed
C8_Witness ==
    /\ nodes[1].quantity = 0
    /\ roster[1].inventory["Wood"] = 3
    /\ Len(trade_log) = 2
    /\ roster[2].inventory["Stone"] = 0
    /\ roster[2].wallet < 10 * 450
    /\ buildings[2].construction_fund > 0


\* The money in wallets and funds, and its growth over the last operation
MoneyNow == Money(EconState)

MoneyGrowth == MoneyNow - ledger_before.money

\* C14: money is created only by mint_currency: whenever an operation
\* leaves more money in the wallets and construction funds together than
\* it found, the total supply has grown by the same amount in that
\* operation.
C14_MoneyOnlyMinted ==
    MoneyGrowth > 0 => total_supply - ledger_before.supply = MoneyGrowth


----------------------------------------------------------------------------
(* Properties of construction                                              *)

\* The last operation was a purchase attempt
Purchased == build_op.op = "purchase"

\* What the last purchase attempt took of resource r from the market
Bought(r) ==
    build_op.before.markets[build_op.market].inventory[r].quantity
    - markets[build_op.market].inventory[r].quantity

\* What the last purchase attempt took from the building's fund
Spent ==
    build_op.before.buildings[build_op.building].construction_fund
    - buildings[build_op.building].construction_fund

\* What the last purchase attempt asked of resource r, and its cost
Asked(r) ==
    LET good == build_op.before.markets[build_op.market].inventory[r]
    IN IF good.stocked
       THEN Min(Min(build_op.before.buildings[build_op.building].remaining[r],
                    PurchaseLimit(r)), good.quantity)
       ELSE 0

AskedCost(r) ==
    build_op.before.markets[build_op.market].inventory[r].current_price
    * Asked(r)

\* The builder's carried-resource record, by resource
Carried(r) ==
    LET c == roster[build_op.agent].carrying_resources
    IN CASE r = "Wood" -> c.wood [] r = "Stone" -> c.stone
         [] r = "Iron" -> c.iron [] OTHER -> 0

NoEffect ==
    /\ roster = build_op.before.roster
    /\ markets = build_op.before.markets
    /\ buildings = build_op.before.buildings
    /\ currency = build_op.before.currency

Ordered == build_op.op \in {"noble_order", "peasant_building"}

\* C15: when a noble or a peasant orders a building, its fund is three
\* times the cost of its required resources at market prices and the same
\* amount leaves the wallets, so that wallets and funds together hold what
\* they held before.
C15_FundPaidByOwner ==
    Ordered =>
        /\ buildings[build_op.building].construction_fund
             = 3 * EstimatedCost(buildings[build_op.building],
                                 build_op.before.markets)
        /\ MoneyNow = Money(build_op.before)

----------------------------------------------------------------------------
\* ResourceManager::harvest called on its own, on lists of nodes of any
\* stock and with ids of nodes that exist and of nodes that do not.

MaxHarvests == 2

NodeStocks == {0, 3, 7}

HarvestAmounts == {0, 3, 5, 10}

NodeLists ==
    {<<>>}
    \cup {<<[resource_type |-> "Tree", quantity |-> q]>> : q \in NodeStocks}
    \cup {<<[resource_type |-> "Tree", quantity |-> q],
            [resource_type |-> "Rock", quantity |-> p]>> :
              q \in NodeStocks, p \in NodeStocks}

InitHarvest ==
    /\ IdleMatch
    /\ IdleLocks
    /\ roster = <<>>
    /\ markets = <<>>
    /\ nodes \in NodeLists
    /\ buildings = <<>>
    /\ total_supply = InitialSupply
    /\ currency = IdleCurrency
    /\ wage_timer = 0
    /\ ticks = 0
    /\ price_op = [op |-> "none", market |-> 0]
    /\ trade_log = <<>>
    /\ ledger_before = [money |-> 0, supply |-> InitialSupply]
    /\ build_op = NoBuildOp
    /\ labor_op = NoLaborOp
    /\ call = NoCall

\* The variables a call on its own leaves alone, besides those it names
CallUnchanged ==
    UNCHANGED <<total_supply, wage_timer, price_op, trade_log, currency,
                ledger_before, build_op, labor_op, matchVars, lockVars>>

\* One call harvest(node_id, amount)
HarvestCall ==
    /\ ticks < MaxHarvests
    /\ \E node_id \in 0..(Len(nodes) + 1), amount \in HarvestAmounts :
         LET h == harvest(nodes, node_id, amount)
         IN /\ nodes' = h.nodes
            /\ call' = [op |-> "harvest", node_id |-> node_id,
                        amount |-> amount, before |-> nodes,
                        some |-> h.some, harvested |-> h.harvested]
    /\ ticks' = ticks + 1
    /\ UNCHANGED <<roster, markets, buildings>>
    /\ CallUnchanged

NextHarvest == HarvestCall

SpecHarvest == InitHarvest /\ [][NextHarvest]_vars

Harvested == call.op = "harvest"

\* C30: harvest(node_id, amount) on an existing node returns
\* min(amount, remaining quantity) and lowers the node's quantity by exactly
\* that, never below 0, leaving the other nodes alone; for an id that no
\* node has it returns None and changes no node.
C30_HarvestTakesWhatIsThere ==
    Harvested =>
        IF call.node_id \in 1..Len(call.before)
        THEN LET had == call.before[call.node_id].quantity
             IN /\ call.some
                /\ call.harvested <= call.amount
                /\ call.harvested <= had
                /\ call.harvested = call.amount \/ call.harvested = had
                /\ nodes[call.node_id].quantity = had - call.harvested
                /\ nodes[call.node_id].quantity >= 0
                /\ \A k \in 1..Len(nodes) :
                      k # call.node_id => nodes[k] = call.before[k]
        ELSE /\ ~call.some
             /\ nodes = call.before

\* An id that no node has was asked: None
C30_WitnessNone ==
    /\ Harvested
    /\ call.node_id = Len(nodes) + 1
    /\ Len(nodes) > 0
    /\ ~call.some

\* A node was asked for more than it held: it gave what it had
C30_Witness ==
    /\ Harvested
    /\ call.node_id \in 1..Len(call.before)
    /\ call.amount > call.before[call.node_id].quantity
    /\ call.before[call.node_id].quantity > 0
    /\ call.harvested = call.before[call.node_id].quantity

----------------------------------------------------------------------------
\* The execution of one matched trade (1255-1284) applied on its own, to
\* trades between two agents and to trades naming an agent the roster
\* does not hold.

MaxTrades == 2

TradePurses == {0, 20 * Gold, 100 * Gold}

TradeChoices ==
    {[buyer_id |-> b, seller_id |-> s, resource |-> "Wood",
      quantity |-> q, price_per_unit |-> BasePrice("Wood")] :
        b \in 0..3, s \in 0..3, q \in {1, 5}}

InitTrade ==
    /\ IdleMatch
    /\ IdleLocks
    /\ \E purse \in TradePurses, wood \in {0, 3, 8} :
         roster = <<NewAgent("Burgher", "Builder", purse, NoGoods),
                    NewAgent("Noble", "Unemployed", StartingWallet("Noble"),
                             [NoGoods EXCEPT !["Wood"] = wood])>>
    /\ markets = <<>>
    /\ nodes = <<>>
    /\ buildings = <<>>
    /\ total_supply = InitialSupply
    /\ currency = IdleCurrency
    /\ wage_timer = 0
    /\ ticks = 0
    /\ price_op = [op |-> "none", market |-> 0]
    /\ trade_log = <<>>
    /\ ledger_before = [money |-> 0, supply |-> InitialSupply]
    /\ build_op = NoBuildOp
    /\ labor_op = NoLaborOp
    /\ call = NoCall

\* One trade of the list match_orders returned is executed
ExecuteTradeCall ==
    /\ ticks < MaxTrades
    /\ \E trade \in TradeChoices :
         /\ trade.buyer_id # trade.seller_id
         /\ LET st == ExecuteTrade(EconState, trade)
            IN /\ roster' = st.roster
               /\ trade_log' = st.trade_log
               /\ currency' = st.currency
         /\ call' = [op |-> "execute_trade", trade |-> trade,
                     before |-> roster]
    /\ ticks' = ticks + 1
    /\ UNCHANGED <<markets, nodes, buildings, total_supply, wage_timer,
                   price_op, ledger_before, build_op, labor_op, matchVars,
                   lockVars>>

NextTrade == ExecuteTradeCall

SpecTrade == InitTrade /\ [][NextTrade]_vars

TradeExecuted == call.op = "execute_trade"

\* The trade could not be carried out on the roster ros
Refused(ros, trade) ==
    \/ ~Found(ros, trade.buyer_id)
    \/ ~Found(ros, trade.seller_id)
    \/ ros[trade.buyer_id].wallet < trade.price_per_unit * trade.quantity

C28_RefusedWithSellerChangesNothing ==
    (/\ TradeExecuted
     /\ Found(call.before, call.trade.seller_id)
     /\ Refused(call.before, call.trade))
        => roster = call.before

\* The buyer could not pay a trade with a seller that exists
C28_WitnessCannotAfford ==
    /\ TradeExecuted
    /\ Found(call.before, call.trade.buyer_id)
    /\ Found(call.before, call.trade.seller_id)
    /\ Refused(call.before, call.trade)

----------------------------------------------------------------------------
\* Simulation::balance_market_inventories called on its own, on three
\* markets whose wood and stone stocks are level, far apart, or missing.

MaxBalances == 2

BalanceWoodChoices == {NoGood} \cup {NewGood("Wood", q) : q \in {0, 40, 200, 400}}

BalanceStoneChoices == {<<NoGood, NoGood>>,
                        <<NewGood("Stone", 300), NewGood("Stone", 0)>>}

InitBalance ==
    /\ IdleMatch
    /\ IdleLocks
    /\ roster = <<>>
    /\ \E w1 \in BalanceWoodChoices, w2 \in BalanceWoodChoices,
          w3 \in BalanceWoodChoices, st \in BalanceStoneChoices :
         markets = <<[NewMarket EXCEPT !.inventory["Wood"] = w1,
                                       !.inventory["Stone"] = st[1]],
                     [NewMarket EXCEPT !.inventory["Wood"] = w2],
                     [NewMarket EXCEPT !.inventory["Wood"] = w3,
                                       !.inventory["Stone"] = st[2]]>>
    /\ nodes = <<>>
    /\ buildings = <<>>
    /\ total_supply = InitialSupply
    /\ currency = IdleCurrency
    /\ wage_timer = 0
    /\ ticks = 0
    /\ price_op = [op |-> "none", market |-> 0]
    /\ trade_log = <<>>
    /\ ledger_before = [money |-> 0, supply |-> InitialSupply]
    /\ build_op = NoBuildOp
    /\ labor_op = NoLaborOp
    /\ call = NoCall

\* One call of balance_market_inventories
BalanceCall ==
    /\ ticks < MaxBalances
    /\ LET done == BalanceAll(markets)
       IN /\ markets' = done.markets
          /\ call' = [op |-> "balance", before |-> markets,
                      applied |-> done.applied]
    /\ ticks' = ticks + 1
    /\ UNCHANGED <<roster, nodes, buildings>>
    /\ CallUnchanged

NextBalance == BalanceCall

SpecBalance == InitBalance /\ [][NextBalance]_vars

Balanced == call.op = "balance"

\* C27: balance_market_inventories conserves goods: for each resource type
\* the total over all markets is the same before and after the call; each
\* transfer moves at most 30 units; a transfer is applied only if the
\* source market holds at least the amount when it is applied; no market's
\* stock goes negative.
C27_TransfersConserveGoods ==
    Balanced =>
        /\ \A r \in ResourceTypes :
             TotalInventory(markets, r) = TotalInventory(call.before, r)
        /\ \A n \in 1..Len(call.applied) :
             /\ call.applied[n].amount <= 30
             /\ call.applied[n].amount > 0
             /\ call.applied[n].source_had >= call.applied[n].amount
        /\ \A k \in 1..Len(markets), r \in ResourceTypes :
             markets[k].inventory[r].quantity >= 0

\* One market served two others with 30 pieces of wood each, and stone
\* moved as well
C27_Witness ==
    /\ Balanced
    /\ Len(call.applied) >= 3
    /\ call.applied[1].amount = 30
    /\ call.applied[2].amount = 30
    /\ call.applied[1].from = call.applied[2].from
    /\ markets # call.before

----------------------------------------------------------------------------
\* Which resource types one purchase attempt buys

\* The resource types the last purchase attempt could take something of
Deficient == {r \in ResourceTypes : Asked(r) > 0}

\* The price the market asked for resource r when the attempt started
PriceBefore(r) ==
    build_op.before.markets[build_op.market].inventory[r].current_price

\* The resource types tried before r: wood before stone before iron
TriedBefore(r) ==
    CASE r = "Stone" -> {"Wood"}
      [] r = "Iron" -> {"Wood", "Stone"}
      [] OTHER -> {}

\* What the fund still held when the attempt came to resource r
FundLeftAt(r) ==
    build_op.before.buildings[build_op.building].construction_fund
    - SumOver([x \in ResourceTypes |-> PriceBefore(x) * Bought(x)],
              TriedBefore(r))

----------------------------------------------------------------------------
\* The job targets of rebalance_labor (2139-2158) computed on their own,
\* from demand scores and harvester targets drawn directly.

MaxTargetCalls == 2

\* Demand scores, as whole numbers in a common unit.  50, 20, 10, 20 are
\* the shares 0.5, 0.3 (stone and iron together) and 0.2.
ScoreChoices ==
    {[r \in ResourceTypes |->
         CASE r = "Wood" -> w [] r = "Stone" -> s [] r = "Iron" -> i
           [] OTHER -> f] :
        w \in {50, 10, 1}, s \in {20, 1}, i \in {10, 60}, f \in {20, 5}}

\* Harvester targets: 40% of rosters of 0, 5, 8, 10 and 100 agents
TargetChoices == {TargetHarvesters(n) : n \in {0, 5, 8, 10, 100}}

InitTargets ==
    /\ IdleMatch
    /\ IdleLocks
    /\ roster = <<>>
    /\ markets = <<>>
    /\ nodes = <<>>
    /\ buildings = <<>>
    /\ total_supply = InitialSupply
    /\ currency = IdleCurrency
    /\ wage_timer = 0
    /\ ticks = 0
    /\ price_op = [op |-> "none", market |-> 0]
    /\ trade_log = <<>>
    /\ ledger_before = [money |-> 0, supply |-> InitialSupply]
    /\ build_op = NoBuildOp
    /\ labor_op = NoLaborOp
    /\ call = NoCall

\* The targets are computed for some scores and some harvester target
TargetsCall ==
    /\ ticks < MaxTargetCalls
    /\ \E scores \in ScoreChoices, target \in TargetChoices :
         call' = [op |-> "targets", scores |-> scores, target |-> target,
                  targets |-> JobTargets(DemandByJob(scores), target),
                  final |-> FinalTargets(DemandByJob(scores), target)]
    /\ ticks' = ticks + 1
    /\ UNCHANGED <<roster, markets, nodes, buildings>>
    /\ CallUnchanged

NextTargets == TargetsCall

SpecTargets == InitTargets /\ [][NextTargets]_vars

Targeted == call.op = "targets"

\* The demand score of the job: the miners' is stone and iron together
ScoreOf(j) ==
    CASE j = "Woodcutter" -> call.scores["Wood"]
      [] j = "Miner" -> call.scores["Stone"] + call.scores["Iron"]
      [] OTHER -> call.scores["Food"]

TotalScore ==
    call.scores["Wood"] + call.scores["Stone"] + call.scores["Iron"]
    + call.scores["Food"]

\* x is the whole part of num / den, but at least 1
IsShareOf(x, num, den) ==
    \/ x = 1 /\ num < 2 * den
    \/ x >= 2 /\ x * den <= num /\ num < (x + 1) * den

\* C21 as stated: the target of each harvesting job is its share of the
\* harvester target, in proportion to the demand scores, the miners taking
\* the stone and iron shares together, and at least 1.
C21_TargetsProportional ==
    Targeted =>
        \A j \in Harvesters :
            IsShareOf(call.final[j], ScoreOf(j) * call.target, TotalScore)

\* C21: the targets computed first are those shares, each at least 1; if
\* the three of them together exceed the harvester target, the target of
\* each job is its first target times harvester target / their sum, again
\* at least 1; otherwise it is the first target.
C21_TargetsProportionalThenScaled ==
    Targeted =>
        LET sum == call.targets["Woodcutter"] + call.targets["Miner"]
                   + call.targets["Farmer"]
        IN \A j \in Harvesters :
             /\ IsShareOf(call.targets[j], ScoreOf(j) * call.target,
                          TotalScore)
             /\ IF sum > call.target
                THEN IsShareOf(call.final[j],
                               call.targets[j] * call.target, sum)
                ELSE call.final[j] = call.targets[j]

\* Scenario E: scores 0.5, 0.3, 0.2 and a harvester target of 40 give 20
\* woodcutters, 12 miners and 8 farmers
C21_Witness ==
    /\ Targeted
    /\ call.target = 40
    /\ call.scores = [Wood |-> 50, Stone |-> 20, Iron |-> 10, Food |-> 20]
    /\ call.final = [Woodcutter |-> 20, Miner |-> 12, Farmer |-> 8]

\* A harvester target of 3 of which two thirds would be miners: the three
\* targets 1, 2, 1 exceed it and are scaled to 1, 1, 1
C21_WitnessScaled ==
    /\ Targeted
    /\ call.target = 3
    /\ call.targets["Miner"] = 2
    /\ call.final["Miner"] = 1

----------------------------------------------------------------------------
\* A building's own operations: resources are added to it in loads and
\* construct_with_resources is called on it, in any order.

MaxDelivered == 60      \* the most of one resource delivered in all

LoadChoices == {5, 20}

InitConstruct ==
    /\ IdleMatch
    /\ IdleLocks
    /\ roster = <<>>
    /\ markets = <<>>
    /\ nodes = <<>>
    /\ \E type \in {"PeasantHouse", "FarmingShed"} :
         buildings = <<SiteBuilding(type, 0, 0)>>
    /\ total_supply = InitialSupply
    /\ currency = IdleCurrency
    /\ wage_timer = 0
    /\ ticks = 0
    /\ price_op = [op |-> "none", market |-> 0]
    /\ trade_log = <<>>
    /\ ledger_before = [money |-> 0, supply |-> InitialSupply]
    /\ build_op = NoBuildOp
    /\ labor_op = NoLaborOp
    /\ call = NoCall

\* A builder's load is delivered (1371-1380)
AddResources(b) ==
    /\ \E r \in {"Wood", "Stone"}, quantity \in LoadChoices :
         /\ buildings[b].delivered[r] + quantity <= MaxDelivered
         /\ buildings' = [buildings EXCEPT ![b] = add_resources(@, r, quantity)]
         /\ call' = [op |-> "add_resources", building |-> b]
    /\ UNCHANGED <<roster, markets, nodes, ticks>>
    /\ CallUnchanged

\* A builder at the site works on it (1534-1538); the handler visits only
\* buildings that are not complete (1342-1348)
ConstructCall(b) ==
    /\ ~buildings[b].complete
    /\ LET done == construct_with_resources(buildings[b], ProgressPerBuilder)
       IN /\ buildings' = [buildings EXCEPT ![b] = done.building]
          /\ call' = [op |-> "construct", building |-> b,
                      progress_amount |-> ProgressPerBuilder,
                      before |-> buildings[b],
                      constructed |-> done.constructed]
    /\ UNCHANGED <<roster, markets, nodes, ticks>>
    /\ CallUnchanged

NextConstruct ==
    \/ \E b \in 1..Len(buildings) : AddResources(b)
    \/ \E b \in 1..Len(buildings) : ConstructCall(b)

SpecConstruct == InitConstruct /\ [][NextConstruct]_vars

\* C24: a building's construction progress reaches 1.0 through
\* construct_with_resources only if, of every resource type it requires,
\* at least the required quantity has been delivered to it in all.
C24_CompleteOnlyIfDelivered ==
    \A b \in 1..Len(buildings) :
        buildings[b].construction_progress >= FullProgress =>
            \A r \in ResourceTypes :
                buildings[b].delivered[r] >= buildings[b].required[r]

\* A building has been completed by construct_with_resources
C24_Witness ==
    /\ call.op = "construct"
    /\ call.constructed
    /\ buildings[call.building].construction_progress = FullProgress
    /\ buildings[call.building].complete

----------------------------------------------------------------------------
\* The prices rebalance_labor works with, and the agents it converts

\* The markets that have an entry for resource r
Stocking(r) == {k \in 1..Len(markets) : markets[k].inventory[r].stocked}

\* rebalance_labor has just run on a roster that was not empty, so that it
\* came to compute the demand (2079-2082)
DemandComputed == Rebalanced /\ Len(labor_op.before) > 0

\* C22: the demand score of a resource is the average of its current
\* prices over the markets that stock it, divided by its total stock
\* plus 10; it does not depend on the order in which the markets are
\* visited.  The divisor being the same, the price the run used must be
\* the average, and every other order must give the same demands.
C22_DemandFromAveragePrice ==
    DemandComputed =>
        /\ \A r \in ResourceTypes :
             Stocking(r) # {} =>
               LastPrice(markets, labor_op.order, r) * Cardinality(Stocking(r))
                 = SumOver([k \in 1..Len(markets) |->
                               markets[k].inventory[r].current_price],
                           Stocking(r))
        /\ \A other \in IterationOrders(Len(markets)) :
             LaborDemand(markets, other)
               = LaborDemand(markets, labor_op.order)

\* With markets that ask one price, or a single market, the demand is as
\* C22 says
C22_WitnessOnePrice ==
    /\ DemandComputed
    /\ Len(markets) = 1
    /\ Stocking("Wood") # {}

\* C23: rebalance_labor converts only agents that are Idle: a Builder that
\* is assigned to a building or carries purchased resources keeps its job.
C23_OnlyIdleConverted ==
    Rebalanced =>
        \A i \in 1..Len(roster) :
            roster[i].job # labor_op.before[i].job =>
                /\ labor_op.before[i].state = "Idle"
                /\ ~labor_op.before[i].carrying_resources.some

----------------------------------------------------------------------------
\* Deaths: agents of the economy above are killed between the ticks.

MaxLifeTicks == 2

\* SimAgent::is_alive (agent.rs 153-155)
is_alive(a) == a.state # "Dead"

\* LifecycleLayer::kill_agent (lifecycle.rs 62-78): the agent found is
\* marked Dead and stays in the roster
kill_agent(ros, agent_id) ==
    IF Found(ros, agent_id) THEN [ros EXCEPT ![agent_id].state = "Dead"]
    ELSE ros

\* LifecycleLayer::count_living (lifecycle.rs 130-132)
count_living(ros) == Cardinality({i \in 1..Len(ros) : is_alive(ros[i])})

\* kill_agent on a living agent (combat, 331; natural causes, lifecycle.rs
\* 100-111)
LifeKill(i) ==
    /\ is_alive(roster[i])
    /\ roster' = kill_agent(roster, i)
    /\ call' = [op |-> "kill_agent", before |-> roster]
    /\ UNCHANGED <<markets, nodes, buildings, total_supply, wage_timer,
                   ticks, price_op, trade_log, currency, ledger_before,
                   build_op, labor_op, matchVars, lockVars>>

\* update_living_agents (lifecycle.rs 152-162) runs the movement and the
\* needs cycle on the living only
LifeMoves(i) ==
    /\ is_alive(roster[i])
    /\ AgentMoves(i)

\* One slow tick
LifeTickSlow ==
    /\ ticks < MaxLifeTicks
    /\ ticks' = ticks + 1
    /\ Becomes(tick_slow(EconState))
    /\ call' = [op |-> "tick_slow", before |-> roster]
    /\ UNCHANGED <<price_op, build_op, labor_op, matchVars, lockVars>>

\* One very slow tick: rebalance_labor (2238), then taxes and fund
\* replenishment
LifeTickVerySlow ==
    /\ ticks < MaxLifeTicks
    /\ ticks' = ticks + 1
    /\ \E order \in IterationOrders(Len(markets)) :
         Becomes(tick_very_slow(rebalance_labor(EconState, order)))
    /\ call' = [op |-> "tick_very_slow", before |-> roster]
    /\ UNCHANGED <<price_op, build_op, labor_op, matchVars, lockVars>>

NextLife ==
    \/ \E i \in 1..Len(roster) : LifeKill(i)
    \/ \E i \in 1..Len(roster) : LifeMoves(i)
    \/ LifeTickSlow
    \/ LifeTickVerySlow

SpecLife == Init /\ [][NextLife]_vars

\* The last operation was a tick
Ticked == call.op \in {"tick_slow", "tick_very_slow"}

\* C29: a killed agent is excluded from all live processing: count_living
\* does not count it, no later movement or needs update touches it, and no
\* later wage payment, labor reassignment, tax collection or trade changes
\* its wallet, job or inventory.
C29_DeadAgentsUntouched ==
    /\ call.op = "kill_agent" =>
          count_living(roster) = count_living(call.before) - 1
    /\ Ticked =>
          \A i \in 1..Len(roster) :
              ~is_alive(call.before[i]) =>
                  /\ roster[i].state = "Dead"
                  /\ roster[i].wallet = call.before[i].wallet
                  /\ roster[i].job = call.before[i].job
                  /\ roster[i].inventory = call.before[i].inventory

\* What does hold of the dead: they are not counted, and in this economy,
\* where no builder stands at a building site, they stay dead and in their
\* place in the roster
C29_DeadStayDead ==
    /\ call.op = "kill_agent" =>
          count_living(roster) = count_living(call.before) - 1
    /\ Ticked =>
          \A i \in 1..Len(roster) :
              ~is_alive(call.before[i]) => roster[i].state = "Dead"

\* A tick has passed over a dead agent
C29_WitnessTickOverDead ==
    /\ Ticked
    /\ \E i \in 1..Len(roster) : ~is_alive(call.before[i])

----------------------------------------------------------------------------
\* The building site: one builder, one market and one funded building that
\* lacks everything.  Of the two ticks it has what they do to builders and
\* buildings; the fast tick and the slow tick both keep running.

\* ---- tick_fast: the builders' walk (466-527) ----

\* A builder whose carrying record holds resources walks to its site and
\* is set to Building until it is within 5.0 of it (472-495); one whose
\* record holds nothing walks to the nearest market and is set to Moving
\* (496-514); one without a record that is Moving walks to the nearest
\* market (515-532).  The walk of 0.7 a tick is taken to its end.
builder_moves(st, i) ==
    LET a == st.roster[i]
        c == a.carrying_resources
        to_market == IF st.markets # <<>>
                     THEN [a EXCEPT !.near_market = HomeMarket,
                                    !.near_building = 0]
                     ELSE a
    IN IF a.job # "Builder" THEN st
       ELSE IF c.some
            THEN IF c.wood > 0 \/ c.stone > 0 \/ c.iron > 0
                 THEN IF ~AtSite(a, c.target_building_id)
                      THEN [st EXCEPT !.roster[i] =
                              [a EXCEPT !.near_building = c.target_building_id,
                                        !.near_market = 0,
                                        !.state = "Building"]]
                      ELSE st
                 ELSE IF st.markets # <<>>
                      THEN [st EXCEPT !.roster[i] =
                              [to_market EXCEPT !.state = "Moving"]]
                      ELSE st
            ELSE IF a.state = "Moving"
                 THEN [st EXCEPT !.roster[i] = to_market]
                 ELSE st

\* The needs cycle (870-959) leaves a builder that is Idle, Moving or
\* Building as it is
needs_cycle(st) == st

\* What a slow tick does at the site: the needs cycle (870),
\* assign_builders_to_buildings (962), deliveries and construction (1338)
site_tick_slow(st) == construction(assign_builders_to_buildings(needs_cycle(st)))

\* What a fast tick does to the builders
RECURSIVE MoveLoop(_, _)
MoveLoop(st, i) ==
    IF i > Len(st.roster) THEN st ELSE MoveLoop(builder_moves(st, i), i + 1)

\* Where the builder starts: away from everything, at the market, at the
\* site
PlaceChoices ==
    {[near_market |-> 0, near_building |-> 0],
     [near_market |-> HomeMarket, near_building |-> 0],
     [near_market |-> 0, near_building |-> 1]}

\* A builder fresh from SimAgent::new_with_class, standing at place
SiteBuilder(place) ==
    [near_building |-> place.near_building]
    @@ [NewAgent("Peasant", "Builder", StartingWallet("Peasant"), NoGoods)
        EXCEPT !.near_market = place.near_market]

InitSite ==
    /\ IdleMatch
    /\ IdleLocks
    /\ \E place \in PlaceChoices : roster = <<SiteBuilder(place)>>
    /\ \E wood \in BuildWoodStocks, stone \in BuildStoneStocks :
         markets = <<BuildMarket(wood, BasePrice("Wood"), stone)>>
    /\ nodes = <<>>
    /\ \E type \in {"PeasantHouse", "FarmingShed"}, fund \in BuildFunds :
         buildings = <<SiteBuilding(type, 0, fund)>>
    /\ total_supply = InitialSupply
    /\ currency = IdleCurrency
    /\ wage_timer = 0
    /\ ticks = 0
    /\ price_op = [op |-> "none", market |-> 0]
    /\ trade_log = <<>>
    /\ ledger_before = [money |-> 0, supply |-> InitialSupply]
    /\ build_op = NoBuildOp
    /\ labor_op = NoLaborOp
    /\ call = NoCall

SiteUnchanged ==
    UNCHANGED <<nodes, total_supply, wage_timer, ticks, price_op, trade_log,
                ledger_before, build_op, labor_op, matchVars, lockVars>>

\* tick_fast
SiteTickFast ==
    /\ roster' = MoveLoop(EconState, 1).roster
    /\ call' = [op |-> "tick_fast"]
    /\ UNCHANGED <<markets, buildings, currency>>
    /\ SiteUnchanged

\* tick_slow
SiteTickSlow ==
    /\ \E st \in {site_tick_slow(EconState)} :
          /\ roster' = st.roster
          /\ markets' = st.markets
          /\ buildings' = st.buildings
          /\ currency' = st.currency
    /\ call' = [op |-> "tick_slow"]
    /\ SiteUnchanged

NextSite == SiteTickFast \/ SiteTickSlow

\* The scheduler loop runs both ticks for as long as the program runs
SpecSite ==
    InitSite /\ [][NextSite]_vars
    /\ WF_vars(SiteTickFast) /\ WF_vars(SiteTickSlow)

\* The builders of the site
SiteBuilders == {1}

\* What builder i carries
CarriedQuantity(i) ==
    roster[i].carrying_resources.wood + roster[i].carrying_resources.stone
    + roster[i].carrying_resources.iron

\* Builder i is assigned to a building that is incomplete and lacks a
\* resource which the market stocks and whose cost, for the quantity a
\* purchase would take, the building's fund covers
CanBuyFor(i) ==
    /\ roster[i].job = "Builder"
    /\ roster[i].carrying_resources.some
    /\ LET b == roster[i].carrying_resources.target_building_id
       IN /\ ~buildings[b].complete
          /\ \E r \in ResourceTypes :
               LET good == markets[HomeMarket].inventory[r]
                   take == Min(Min(buildings[b].remaining[r],
                                   PurchaseLimit(r)), good.quantity)
               IN /\ good.stocked
                  /\ take > 0
                  /\ buildings[b].construction_fund
                       >= good.current_price * take

\* Something has been delivered to the building builder i is assigned to
DeliveredFor(i) ==
    \E b \in 1..Len(buildings), r \in ResourceTypes :
        buildings[b].delivered[r] > 0

\* C25: a builder assigned to an incomplete building that lacks resources,
\* whose fund covers their cost and whose nearest market stocks one of
\* them, eventually buys (what it carries becomes positive) and the
\* building's tally of delivered resources eventually rises, the ticks
\* running on.
C25_AssignedBuilderBuysAndDelivers ==
    \A i \in SiteBuilders :
        /\ CanBuyFor(i) ~> (CarriedQuantity(i) > 0)
        /\ CanBuyFor(i) ~> DeliveredFor(i)

\* Nothing is ever bought or delivered at the site
C25_NothingEverBought ==
    \A i \in 1..Len(roster) :
        /\ CarriedQuantity(i) = 0
        /\ ~DeliveredFor(i)
        /\ currency.transaction_count = 0

\* A builder stands at the market, assigned to a building whose fund
\* covers what the market stocks of its needs
C25_WitnessAtMarket ==
    /\ CanBuyFor(1)
    /\ roster[1].near_market = HomeMarket
    /\ roster[1].state = "Moving"

----------------------------------------------------------------------------
\* construct_with_resources called with any amount of progress, on a
\* building in any state of its construction.

\* progress_amount in hundredths: the slow tick's 0.02, and 0.3 and 1.0
ProgressChoices == {ProgressPerBuilder, 30, FullProgress}

ConstructAnyCall(b) ==
    /\ \E p \in ProgressChoices :
         LET done == construct_with_resources(buildings[b], p)
         IN /\ buildings' = [buildings EXCEPT ![b] = done.building]
            /\ call' = [op |-> "construct", building |-> b,
                        progress_amount |-> p,
                        before |-> buildings[b],
                        constructed |-> done.constructed]
    /\ UNCHANGED <<roster, markets, nodes, ticks>>
    /\ CallUnchanged

NextConstructAny ==
    \/ \E b \in 1..Len(buildings) : AddResources(b)
    \/ \E b \in 1..Len(buildings) : ConstructAnyCall(b)

SpecConstructAny == InitConstruct /\ [][NextConstructAny]_vars

\* construct_with_resources has just been called
Constructing == call.op = "construct"

\* ceil(required x p), p in hundredths: the least whole number of which a
\* hundred times is no less than required x p
CeilOfShare(required, p) ==
    CHOOSE n \in 0..(required * p) :
        /\ 100 * n >= required * p
        /\ \A m \in 0..(required * p) : 100 * m >= required * p => n <= m

\* The held stock of some required resource was below its share
ShortBefore ==
    \E r \in ResourceTypes :
        call.before.current_resources[r]
            < CeilOfShare(call.before.required[r], call.progress_amount)

\* C35: construct_with_resources(p) is all-or-nothing.  If of some
\* required resource the building holds less than ceil(required x p), it
\* returns false and changes neither the progress nor any stock;
\* otherwise it returns true, takes ceil(required x p) from the stock of
\* every required resource and raises the progress by p, up to 1.0.
C35_AllOrNothing ==
    Constructing =>
        LET was == call.before
            now == buildings[call.building]
            p == call.progress_amount
        IN IF ShortBefore
           THEN /\ ~call.constructed
                /\ now.construction_progress = was.construction_progress
                /\ now.current_resources = was.current_resources
           ELSE /\ call.constructed
                /\ \A r \in ResourceTypes :
                     now.current_resources[r]
                       = was.current_resources[r]
                           - CeilOfShare(was.required[r], p)
                /\ now.construction_progress
                     = IF was.construction_progress + p > FullProgress
                       THEN FullProgress
                       ELSE was.construction_progress + p

\* Wood enough and stone short: nothing happens
C35_Witness ==
    /\ Constructing
    /\ ~call.constructed
    /\ call.before.current_resources["Wood"]
         >= CeilOfShare(call.before.required["Wood"], call.progress_amount)
    /\ ShortBefore

\* Everything held: the shares are taken, and the progress stops at 1.0
C35_WitnessCapped ==
    /\ Constructing
    /\ call.constructed
    /\ call.before.construction_progress + call.progress_amount > FullProgress
    /\ buildings[call.building].construction_progress = FullProgress

----------------------------------------------------------------------------
\* What a whole construction consumes

\* What construct_with_resources has taken from building b of resource r:
\* all that was delivered and is no longer held
Consumed(b, r) ==
    buildings[b].delivered[r] - buildings[b].current_resources[r]

\* C39: from progress 0 to 1.0, at 0.02 a step, construct_with_resources
\* consumes of no resource type more than the building requires of it.
C39_ConsumesNoMoreThanRequired ==
    \A b \in 1..Len(buildings), r \in ResourceTypes :
        Consumed(b, r) <= buildings[b].required[r]

\* Each step of 0.02 takes ceil(required x 0.02) of every required
\* resource, whatever has been taken before
C39_ConsumesCeilingEachStep ==
    (Constructing /\ call.constructed) =>
        \A r \in ResourceTypes :
            call.before.current_resources[r]
              - buildings[call.building].current_resources[r]
              = CeilOfShare(call.before.required[r], ProgressPerBuilder)

\* A finished peasant house that has consumed more stone than the 10 it
\* requires
C39_WitnessOverConsumed ==
    /\ buildings[1].complete
    /\ buildings[1].required["Stone"] = 10
    /\ Consumed(1, "Stone") > 10

----------------------------------------------------------------------------
\* The building site with everything delivered: the same builder, market
\* and ticks, and a building that holds all it requires and has not been
\* started.

\* A building to which all it requires has been delivered
StockedBuilding(type, owner, fund) ==
    LET b == SiteBuilding(type, owner, fund)
    IN add_resources(add_resources(add_resources(b,
            "Wood", b.required["Wood"]),
            "Stone", b.required["Stone"]),
            "Iron", b.required["Iron"])

InitSiteStocked ==
    /\ IdleMatch
    /\ IdleLocks
    /\ \E place \in PlaceChoices : roster = <<SiteBuilder(place)>>
    /\ markets = <<BuildMarket(30, BasePrice("Wood"), 30)>>
    /\ nodes = <<>>
    /\ \E type \in {"PeasantHouse", "FarmingShed", "Farm"},
          fund \in BuildFunds :
         buildings = <<StockedBuilding(type, 0, fund)>>
    /\ total_supply = InitialSupply
    /\ currency = IdleCurrency
    /\ wage_timer = 0
    /\ ticks = 0
    /\ price_op = [op |-> "none", market |-> 0]
    /\ trade_log = <<>>
    /\ ledger_before = [money |-> 0, supply |-> InitialSupply]
    /\ build_op = NoBuildOp
    /\ labor_op = NoLaborOp
    /\ call = NoCall

\* The scheduler loop runs both ticks for as long as the program runs
SpecSiteStocked ==
    InitSiteStocked /\ [][NextSite]_vars
    /\ WF_vars(SiteTickFast) /\ WF_vars(SiteTickSlow)

\* The buildings of the site
SiteBuildings == {1}

\* Builder i has been assigned to building b, which is incomplete and
\* holds all it requires
AssignedToStocked(i, b) ==
    /\ roster[i].job = "Builder"
    /\ roster[i].carrying_resources.some
    /\ roster[i].carrying_resources.target_building_id = b
    /\ ~buildings[b].complete
    /\ \A r \in ResourceTypes : buildings[b].remaining[r] = 0

\* Builder i holds a carrying record of zero quantities and is not at the
\* building the record names
EmptyHandedAway(i) ==
    /\ roster[i].carrying_resources.some
    /\ CarriedQuantity(i) = 0
    /\ roster[i].near_building # roster[i].carrying_resources.target_building_id

\* C38: a builder assigned to an incomplete building that holds all it
\* requires eventually works on it, so that its progress rises, the fast
\* and slow ticks running on; and no builder stays for ever holding a
\* carrying record of zero quantities away from its building.
C38_AssignedBuilderConstructs ==
    \A i \in SiteBuilders :
        /\ \A b \in SiteBuildings :
             AssignedToStocked(i, b) ~> (buildings[b].construction_progress > 0)
        /\ []<>(~EmptyHandedAway(i))

\* A builder that does not start at the site never works on the stocked
\* building: its progress stays 0
C38_AwayBuilderNeverBuilds ==
    \A b \in 1..Len(buildings) :
        buildings[b].construction_progress > 0 =>
            /\ roster[1].near_building = b
            /\ roster[1].near_market = 0

\* The builder, assigned to the stocked building, has been walked to the
\* market with its empty record
C38_WitnessAtMarket ==
    /\ AssignedToStocked(1, 1)
    /\ EmptyHandedAway(1)
    /\ roster[1].near_market = HomeMarket
    /\ roster[1].state = "Moving"

\* A builder that started at the site has worked on the stocked building
C38_WitnessBuilt ==
    /\ buildings[1].construction_progress > 0
    /\ roster[1].near_building = 1
    /\ roster[1].state = "Building"

----------------------------------------------------------------------------
\* The construction limit: a king, two nobles and a peasant who order
\* buildings as their dice fall at every very slow tick, while the
\* buildings under construction are completed one by one.

MaxSlotBuildings == 11   \* no building is ordered beyond this many in all

MaxCompletions == 2      \* the buildings completed in all

\* No limit on the buildings under construction
AnyNumber == 10 * 10

\* 2632, 2782: MAX_CONCURRENT_CONSTRUCTION
ConstructionLimit == MaxConcurrentConstruction

\* 2627-2629, 2776-2778: the buildings whose progress is below 1.0
UnderConstruction(bs) ==
    Cardinality({b \in 1..Len(bs) : ~bs[b].complete})

\* 2654-2727: a noble whose king has a goal and whose dice say so orders
\* a public building; 2799-2832: a peasant whose dice say so and whose
\* wallet covers the fund starts a house
Orders(st, i, class, dice) ==
    /\ st.roster[i].social_class = class
    /\ dice[i] # "none"
    /\ class = "Noble" =>
         \E j \in 1..Len(st.roster) : st.roster[j].social_class = "King"
    /\ class = "Peasant" =>
         st.roster[i].wallet >= AllocatedFunds(dice[i], st.markets)

\* 2648-2652, 2792-2796: the agents are taken in roster order until as
\* many buildings have been created as there were free slots
RECURSIVE OrderLoop(_, _, _, _, _, _)
OrderLoop(st, i, buildings_created, available_slots, class, dice) ==
    IF i > Len(st.roster) \/ buildings_created >= available_slots THEN st
    ELSE IF Orders(st, i, class, dice)
         THEN OrderLoop(
                [st EXCEPT !.buildings =
                    Append(@, FundedBuilding(dice[i],
                                 IF class = "Noble" THEN 0 ELSE i,
                                 AllocatedFunds(dice[i], st.markets)))],
                i + 1, buildings_created + 1, available_slots, class, dice)
         ELSE OrderLoop(st, i + 1, buildings_created, available_slots,
                        class, dice)

\* 2624-2646, 2770-2790: nothing is ordered when the limit is reached;
\* otherwise the free slots are counted once, before the agents are taken
ProcessOrders(st, class, dice, limit) ==
    IF UnderConstruction(st.buildings) >= limit THEN st
    ELSE OrderLoop(st, 1, 0, limit - UnderConstruction(st.buildings),
                   class, dice)

process_noble_orders(st, dice) ==
    ProcessOrders(st, "Noble", dice, ConstructionLimit)

process_peasant_building(st, dice) ==
    ProcessOrders(st, "Peasant", dice, ConstructionLimit)

\* Simulation::new (213-230): the warehouse and the barracks, complete
\* from the start
StartBuildings ==
    <<[owner |-> 0, construction_fund |-> 0, complete |-> TRUE,
       remaining |-> [Wood |-> 100, Stone |-> 50, Iron |-> 20, Food |-> 0]],
      [owner |-> 0, construction_fund |-> 0, complete |-> TRUE,
       remaining |-> [Wood |-> 80, Stone |-> 60, Iron |-> 30, Food |-> 0]]>>

InitSlots ==
    /\ IdleMatch
    /\ IdleLocks
    /\ roster = <<NewAgent("King", "Unemployed",
                           StartingWallet("King"), NoGoods),
                  NewAgent("Noble", "Unemployed",
                           StartingWallet("Noble"), NoGoods),
                  NewAgent("Noble", "Unemployed",
                           StartingWallet("Noble"), NoGoods),
                  NewAgent("Peasant", "Farmer", 600 * Gold, NoGoods)>>
    /\ markets = <<BuildMarket(30, BasePrice("Wood"), 30)>>
    /\ nodes = <<>>
    /\ buildings = StartBuildings
    /\ total_supply = InitialSupply
    /\ currency = IdleCurrency
    /\ wage_timer = 0
    /\ ticks = 0
    /\ price_op = [op |-> "none", market |-> 0]
    /\ trade_log = <<>>
    /\ ledger_before = [money |-> 0, supply |-> InitialSupply]
    /\ build_op = NoBuildOp
    /\ labor_op = NoLaborOp
    /\ call = NoCall

\* What each agent's dice say at one very slow tick
DiceChoices ==
    {dice \in [1..Len(roster) -> {"none", "Farm", "PeasantHouse"}] :
        \A i \in 1..Len(roster) :
            /\ dice[i] = "Farm" => roster[i].social_class = "Noble"
            /\ dice[i] = "PeasantHouse" => roster[i].social_class = "Peasant"}

\* tick_very_slow 2262-2265: the nobles' orders, then the peasants'
SlotsTickVerySlow ==
    /\ \E dice \in DiceChoices :
         \E st \in {process_peasant_building(
                        process_noble_orders(EconState, dice), dice)} :
            /\ Len(st.buildings) <= MaxSlotBuildings
            /\ buildings' = st.buildings
            /\ call' = [op |-> "tick_very_slow", before |-> buildings,
                        wanted |-> Cardinality({i \in 1..Len(roster) :
                                                   dice[i] # "none"})]
    /\ UNCHANGED <<roster, markets, nodes, ticks>>
    /\ CallUnchanged

\* tick_slow 1534-1538: the builders bring building b's progress to 1.0
SlotsComplete(b) ==
    /\ ticks < MaxCompletions
    /\ ~buildings[b].complete
    /\ buildings' = [buildings EXCEPT ![b].complete = TRUE]
    /\ ticks' = ticks + 1
    /\ call' = [op |-> "complete", building |-> b]
    /\ UNCHANGED <<roster, markets, nodes>>
    /\ CallUnchanged

NextSlots ==
    \/ SlotsTickVerySlow
    \/ \E b \in 1..Len(buildings) : SlotsComplete(b)

SpecSlots == InitSlots /\ [][NextSlots]_vars

\* The orders of a very slow tick have just been processed
OrdersProcessed == call.op = "tick_very_slow"

\* C32: at most 8 buildings are under construction in every reachable
\* state.  The orders of one very slow tick create no building when 8
\* are under construction already, and create together no more buildings
\* than there were free slots.
C32_AtMostEightUnderConstruction ==
    /\ UnderConstruction(buildings) <= 8
    /\ OrdersProcessed =>
         /\ UnderConstruction(call.before) >= 8 => buildings = call.before
         /\ Len(buildings) - Len(call.before)
              <= 8 - UnderConstruction(call.before)

\* Seven under construction and three agents whose dice fall: one
\* building is created, and eight are under construction
C32_Witness ==
    /\ OrdersProcessed
    /\ UnderConstruction(call.before) = 7
    /\ call.wanted = 3
    /\ Len(buildings) = Len(call.before) + 1
    /\ UnderConstruction(buildings) = 8

\* Eight under construction and dice that fall: nothing is created
C32_WitnessFull ==
    /\ OrdersProcessed
    /\ UnderConstruction(call.before) = 8
    /\ call.wanted > 0
    /\ buildings = call.before

----------------------------------------------------------------------------
\* replenish_construction_funds on its own: a king, two nobles and a
\* peasant with purses of several sizes, a public building and a house of
\* the peasant's with funds of several sizes, finished or not, and a
\* market at several prices.

\* The purses drawn: none, 50 gold, 2000 gold
FundPurses == {0, 50 * Gold, 2000 * Gold}

InitFunds ==
    /\ IdleMatch
    /\ IdleLocks
    /\ \E noble1 \in FundPurses, noble2 \in {50 * Gold, 2000 * Gold},
          peasant \in {50 * Gold, 2000 * Gold} :
         roster = <<NewAgent("King", "Unemployed",
                             StartingWallet("King"), NoGoods),
                    NewAgent("Noble", "Unemployed", noble1, NoGoods),
                    NewAgent("Noble", "Unemployed", noble2, NoGoods),
                    NewAgent("Peasant", "Farmer", peasant, NoGoods)>>
    /\ \E wood_price \in BuildWoodPrices :
         markets = <<BuildMarket(30, wood_price, 30)>>
    /\ nodes = <<>>
    /\ \E public_fund \in BuildFunds, own_fund \in {0, 400 * Gold},
          done \in BOOLEAN :
         buildings =
            <<[FundedBuilding("Farm", 0, public_fund)
                  EXCEPT !.complete = done],
              FundedBuilding("PeasantHouse", 4, own_fund)>>
    /\ total_supply = InitialSupply
    /\ currency = IdleCurrency
    /\ wage_timer = 0
    /\ ticks = 0
    /\ price_op = [op |-> "none", market |-> 0]
    /\ trade_log = <<>>
    /\ ledger_before = [money |-> 0, supply |-> InitialSupply]
    /\ build_op = NoBuildOp
    /\ labor_op = NoLaborOp
    /\ call = NoCall

\* One call of replenish_construction_funds (tick_very_slow 2245)
ReplenishCall ==
    /\ \E st \in {replenish_construction_funds(EconState)} :
         /\ roster' = st.roster
         /\ buildings' = st.buildings
    /\ call' = [op |-> "replenish", before |-> EconState]
    /\ UNCHANGED <<markets, nodes, ticks>>
    /\ CallUnchanged

\* The builders spend what is left of building b's fund (1499)
FundSpent(b) ==
    /\ buildings[b].construction_fund > 0
    /\ buildings' = [buildings EXCEPT ![b].construction_fund = 0]
    /\ call' = [op |-> "spend", building |-> b]
    /\ UNCHANGED <<roster, markets, nodes, ticks>>
    /\ CallUnchanged

NextFunds ==
    \/ ReplenishCall
    \/ \E b \in 1..Len(buildings) : FundSpent(b)

SpecFunds == InitFunds /\ [][NextFunds]_vars

\* replenish_construction_funds has just run
Replenished == call.op = "replenish"

\* What the call took from agent i, and what it gave to building b
Deducted(i) == call.before.roster[i].wallet - roster[i].wallet

Added(b) ==
    buildings[b].construction_fund - call.before.buildings[b].construction_fund

\* The cost of what building b lacked before the call, at the prices of
\* the markets as they were
CostBefore(b) ==
    SumOver([r \in ResourceTypes |->
                get_market_price(call.before.markets, r)
                    * call.before.buildings[b].remaining[r]],
            ResourceTypes)

\* The share of agent i in what building b asked for: the whole amount for
\* its owner, an equal part for each king and noble if it is public
ShareOf(i, b) ==
    LET ros == call.before.roster
        owner == call.before.buildings[b].owner
        nobles == {j \in 1..Len(ros) : ros[j].social_class \in {"King", "Noble"}}
    IN IF owner = i THEN 2 * CostBefore(b)
       ELSE IF owner = 0 /\ i \in nobles
            THEN (2 * CostBefore(b)) \div Cardinality(nobles)
            ELSE 0

\* C31: replenish_construction_funds only moves money from owners to
\* building funds.  What it takes from the agents' wallets in all is what
\* it adds to the funds in all; nobody pays more than its wallet held,
\* everybody pays whole shares only, and nobody is paid; and only a
\* building that was incomplete with a fund below half the current-price
\* cost of what it lacked receives money.
C31_ReplenishMovesMoneyToFunds ==
    Replenished =>
        /\ SumOver([i \in 1..Len(roster) |-> Deducted(i)], 1..Len(roster))
             = SumOver([b \in 1..Len(buildings) |-> Added(b)],
                       1..Len(buildings))
        /\ \A i \in 1..Len(roster) :
             /\ Deducted(i) >= 0
             /\ Deducted(i) <= call.before.roster[i].wallet
             /\ \E paid \in SUBSET (1..Len(buildings)) :
                  Deducted(i) = SumOver([b \in paid |-> ShareOf(i, b)], paid)
        /\ \A b \in 1..Len(buildings) :
             /\ Added(b) >= 0
             /\ Added(b) > 0 =>
                  /\ ~call.before.buildings[b].complete
                  /\ 2 * call.before.buildings[b].construction_fund
                       < CostBefore(b)

\* The public building is paid for by the king and one noble; the other
\* noble, whose wallet does not cover the share, pays nothing
C31_Witness ==
    /\ Replenished
    /\ Added(1) > 0
    /\ Deducted(1) > 0
    /\ Deducted(2) = 0
    /\ Deducted(3) = Deducted(1)
    /\ Added(1) = Deducted(1) + Deducted(3)

\* The peasant pays the whole amount for its own house
C31_WitnessOwner ==
    /\ Replenished
    /\ Added(2) > 0
    /\ Added(2) = 2 * CostBefore(2)
    /\ Deducted(4) >= Added(2)

----------------------------------------------------------------------------
\* The wage hour: slow ticks counted from the start of the simulation,
\* of which only the wage block (1299-1336) is followed.

MaxWageTicks == 125     \* slow ticks in a behaviour

\* A roster of paid and unpaid agents
WageRosters ==
    {<<NewAgent("Peasant", "Woodcutter", StartingWallet("Peasant"), NoGoods),
       NewAgent("Noble", "Unemployed", StartingWallet("Noble"), NoGoods)>>,
     <<NewAgent("Burgher", "Builder", StartingWallet("Burgher"), NoGoods),
       NewAgent("Peasant", "Unemployed", StartingWallet("Peasant"), NoGoods),
       NewAgent("King", "Unemployed", StartingWallet("King"), NoGoods)>>}

InitWages ==
    /\ IdleMatch
    /\ IdleLocks
    /\ roster \in WageRosters
    /\ markets = <<>>
    /\ nodes = <<>>
    /\ buildings = <<>>
    /\ total_supply = InitialSupply
    /\ currency = IdleCurrency
    /\ wage_timer = 0
    /\ ticks = 0
    /\ price_op = [op |-> "none", market |-> 0]
    /\ trade_log = <<>>
    /\ ledger_before = [money |-> 0, supply |-> InitialSupply]
    /\ build_op = NoBuildOp
    /\ labor_op = NoLaborOp
    /\ call = NoCall

\* The wage block of one slow tick
WageTick ==
    /\ ticks < MaxWageTicks
    /\ ticks' = ticks + 1
    /\ \E st \in {PayWages(EconState)} :
         /\ roster' = st.roster
         /\ total_supply' = st.total_supply
         /\ currency' = st.currency
         /\ wage_timer' = st.wage_timer
    /\ call' = [op |-> "wages", before |-> EconState]
    /\ UNCHANGED <<markets, nodes, buildings, price_op, trade_log,
                   ledger_before, build_op, labor_op, matchVars, lockVars>>

NextWages == WageTick

SpecWages == InitWages /\ [][NextWages]_vars

\* The slow tick just taken paid wages: some wallet rose
WagesPaid ==
    /\ call.op = "wages"
    /\ \E i \in 1..Len(roster) :
         roster[i].wallet > call.before.roster[i].wallet

\* C33: wages are paid every 60 seconds of slow ticks: counting the slow
\* ticks from the start, the wage block runs on every 60th of them and on
\* no other (59 slow ticks pass without wages between two payments), and
\* a payment of wage w to an agent mints w.
C33_WagesEverySixtiethTick ==
    call.op = "wages" =>
        /\ WagesPaid <=> ticks % 60 = 0
        /\ total_supply - call.before.total_supply
             = SumOver([i \in 1..Len(roster) |->
                           roster[i].wallet - call.before.roster[i].wallet],
                       1..Len(roster))

\* The wage block runs on every 61st slow tick and on no other, and
\* mints what it pays
C33_WagesEverySixtyFirstTick ==
    call.op = "wages" =>
        /\ WagesPaid <=> ticks % 61 = 0
        /\ total_supply - call.before.total_supply
             = SumOver([i \in 1..Len(roster) |->
                           roster[i].wallet - call.before.roster[i].wallet],
                       1..Len(roster))

\* The second payment, at the 122nd slow tick
C33_WitnessSecondPayment ==
    /\ WagesPaid
    /\ ticks = 122
    /\ total_supply > call.before.total_supply

----------------------------------------------------------------------------
\* The harvesters' deposit on its own: a woodcutter, a miner and a
\* builder who come to the market with what they hold, and the deposit
\* block of the slow tick (1046-1140).

MaxReturns == 2         \* the returns to the market in a behaviour

\* What an agent holds when it comes to the market
LoadsCarried ==
    {NoGoods,
     [NoGoods EXCEPT !["Wood"] = 3],
     [NoGoods EXCEPT !["Stone"] = 4, !["Iron"] = 2, !["Food"] = 1]}

InitDeposit ==
    /\ IdleMatch
    /\ IdleLocks
    /\ \E goods \in LoadsCarried, place \in {0, HomeMarket} :
         roster = <<[NewAgent("Peasant", "Woodcutter",
                              StartingWallet("Peasant"), goods)
                     EXCEPT !.state = "Trading", !.near_market = place],
                    [NewAgent("Peasant", "Miner",
                              StartingWallet("Peasant"), NoGoods)
                     EXCEPT !.state = "Working"],
                    [NewAgent("Burgher", "Builder",
                              StartingWallet("Burgher"),
                              [NoGoods EXCEPT !["Wood"] = 3])
                     EXCEPT !.state = "Trading", !.near_market = HomeMarket]>>
    /\ markets \in {<<NewMarket>>, <<WoodMarket(5)>>}
    /\ nodes = <<>>
    /\ buildings = <<>>
    /\ total_supply = InitialSupply
    /\ currency = IdleCurrency
    /\ wage_timer = 0
    /\ ticks = 0
    /\ price_op = [op |-> "none", market |-> 0]
    /\ trade_log = <<>>
    /\ ledger_before = [money |-> 0, supply |-> InitialSupply]
    /\ build_op = NoBuildOp
    /\ labor_op = NoLaborOp
    /\ call = NoCall

\* The deposit block of one slow tick
DepositCall ==
    /\ \E st \in {DepositAll(EconState)} :
         /\ roster' = st.roster
         /\ markets' = st.markets
         /\ currency' = st.currency
    /\ call' = [op |-> "deposit", before |-> EconState]
    /\ UNCHANGED <<nodes, buildings, ticks>>
    /\ UNCHANGED <<total_supply, wage_timer, price_op, trade_log,
                   ledger_before, build_op, labor_op, matchVars, lockVars>>

\* A working agent has harvested and walked to the market (tick_fast
\* 444-464)
ReturnsLoaded(i) ==
    /\ ticks < MaxReturns
    /\ roster[i].state = "Working"
    /\ \E goods \in LoadsCarried :
         roster' = [roster EXCEPT ![i].inventory = goods,
                                  ![i].state = "Trading",
                                  ![i].near_market = HomeMarket]
    /\ ticks' = ticks + 1
    /\ call' = [op |-> "return", agent |-> i]
    /\ UNCHANGED <<markets, nodes, buildings>>
    /\ CallUnchanged

NextDeposit ==
    \/ DepositCall
    \/ \E i \in 1..Len(roster) : ReturnsLoaded(i)

SpecDeposit == InitDeposit /\ [][NextDeposit]_vars

\* The deposit block has just run
Deposited == call.op = "deposit"

\* Agent i was a harvester in Trading state within reach of its market
\* when the block ran
Depositor(i) ==
    /\ call.before.roster[i].job \in {"Woodcutter", "Miner", "Farmer"}
    /\ call.before.roster[i].state = "Trading"
    /\ call.before.roster[i].near_market # 0

\* The stock of resource r in market m
StockOf(m, r) == IF m.inventory[r].stocked THEN m.inventory[r].quantity ELSE 0

\* C34: when a harvester in Trading state within reach of its nearest
\* market deposits, the market's stock of every resource type rises by
\* exactly what the agent held, the agent's inventory is emptied, its
\* wallet rises by exactly 0.9 x base price x quantity summed over the
\* types, and it returns to Working.
C34_DepositMovesGoodsAndPays ==
    Deposited =>
        /\ \A i \in 1..Len(roster) :
             Depositor(i) =>
                /\ roster[i].inventory = NoGoods
                /\ roster[i].state = "Working"
                /\ 10 * (roster[i].wallet - call.before.roster[i].wallet)
                     = SumOver([r \in ResourceTypes |->
                           9 * BasePrice(r) * call.before.roster[i].inventory[r]],
                           ResourceTypes)
        /\ \A k \in 1..Len(markets), r \in ResourceTypes :
             StockOf(markets[k], r) - StockOf(call.before.markets[k], r)
               = SumOver([i \in 1..Len(roster) |->
                            IF Depositor(i)
                                 /\ call.before.roster[i].near_market = k
                            THEN call.before.roster[i].inventory[r] ELSE 0],
                         1..Len(roster))

\* The woodcutter came with 3 wood to a market holding 5: the market
\* holds 8, the woodcutter nothing and 13.50 gold more, and it works again
C34_Witness ==
    /\ Deposited
    /\ Depositor(1)
    /\ call.before.roster[1].inventory["Wood"] = 3
    /\ StockOf(call.before.markets[1], "Wood") = 5
    /\ StockOf(markets[1], "Wood") = 8
    /\ roster[1].wallet = call.before.roster[1].wallet + 1350
    /\ roster[1].state = "Working"

----------------------------------------------------------------------------
\* find_path (pathfinding.rs 35-97) on a small walled room.  A call is
\* followed pop by pop; the heap hands out any node of least f_cost.

RoomSide == 2           \* the cells of the room are 0..RoomSide on x and z

\* The cells of the room, all on the level y = 1; every cell outside the
\* room is a wall
RoomCells == {<<x, 1, z>> : x \in 0..RoomSide, z \in 0..RoomSide}

\* The rooms drawn: the walkable cells of an open room, of a room with a
\* wall that leaves a gap, and of a room cut in two
RoomChoices ==
    {RoomCells,
     RoomCells \ {<<1, 1, 0>>, <<1, 1, 1>>},
     RoomCells \ {<<1, 1, 0>>, <<1, 1, 1>>, <<1, 1, 2>>}}

\* GridCoord::manhattan_distance (spatial.rs 66-68)
Abs(n) == IF n < 0 THEN -n ELSE n

manhattan_distance(a, b) ==
    Abs(a[1] - b[1]) + Abs(a[2] - b[2]) + Abs(a[3] - b[3])

\* get_neighbors (100-109)
get_neighbors(c) ==
    {<<c[1] + 1, c[2], c[3]>>, <<c[1] - 1, c[2], c[3]>>,
     <<c[1], c[2] + 1, c[3]>>, <<c[1], c[2] - 1, c[3]>>,
     <<c[1], c[2], c[3] + 1>>, <<c[1], c[2], c[3] - 1>>}

\* Node::f_cost (16-20)
f_cost(n) == n.g_cost + n.h_cost

\* The closed set with coord given parent (HashMap::insert)
Inserted(closed, coord, parent) ==
    [c \in (DOMAIN closed) \cup {coord} |->
        IF c = coord THEN parent ELSE closed[c]]

\* 56-62: the parents are followed from coord through the closed set until
\* the start is pushed or a cell has no entry
RECURSIVE FollowParents(_, _, _)
FollowParents(closed, coord, start) ==
    IF coord \in DOMAIN closed
    THEN IF closed[coord] = start
         THEN <<closed[coord]>>
         ELSE <<closed[coord]>> \o FollowParents(closed, closed[coord], start)
    ELSE <<>>

\* Vec::reverse
Reverse(s) == [k \in 1..Len(s) |-> s[Len(s) + 1 - k]]

\* The state of a call when it starts (36-45)
FindPathStart(walkable, start, goal, max_iterations) ==
    [op |-> "find_path", walkable |-> walkable, start |-> start,
     goal |-> goal, max_iterations |-> max_iterations,
     open_set |-> SetToBag({[coord |-> start, g_cost |-> 0,
                            h_cost |-> manhattan_distance(start, goal),
                            parent |-> <<>>]}),
     closed_set |-> <<>>, iterations |-> 0,
     returned |-> FALSE, some |-> FALSE, path |-> <<>>]

\* One turn of the loop (47-93) on popped node current
FindPathTurn(run, current) ==
    LET rest == run.open_set (-) SetToBag({current})
        pushed == {[coord |-> n, g_cost |-> current.g_cost + 10,
                    h_cost |-> manhattan_distance(n, run.goal),
                    parent |-> <<current.coord>>] :
                   n \in {m \in get_neighbors(current.coord) :
                            /\ m \in run.walkable
                            /\ m \notin DOMAIN run.closed_set}}
    IN IF run.iterations + 1 > run.max_iterations
       THEN [run EXCEPT !.iterations = @ + 1, !.open_set = rest,
                        !.returned = TRUE]
       ELSE IF current.coord = run.goal
       THEN [run EXCEPT !.iterations = @ + 1, !.open_set = rest,
                        !.returned = TRUE, !.some = TRUE,
                        !.path = Reverse(<<current.coord>> \o
                                   FollowParents(run.closed_set,
                                                 current.coord, run.start))]
       ELSE [run EXCEPT !.iterations = @ + 1,
                        !.open_set = rest (+) SetToBag(pushed),
                        !.closed_set =
                            Inserted(@, current.coord,
                                     IF current.parent = <<>> THEN run.start
                                     ELSE current.parent[1])]

\* The inputs drawn
InitPath ==
    /\ IdleMatch
    /\ IdleLocks
    /\ roster = <<>>
    /\ markets = <<>>
    /\ nodes = <<>>
    /\ buildings = <<>>
    /\ total_supply = InitialSupply
    /\ currency = IdleCurrency
    /\ wage_timer = 0
    /\ ticks = 0
    /\ price_op = [op |-> "none", market |-> 0]
    /\ trade_log = <<>>
    /\ ledger_before = [money |-> 0, supply |-> InitialSupply]
    /\ build_op = NoBuildOp
    /\ labor_op = NoLaborOp
    /\ \E walkable \in RoomChoices, goal \in RoomCells,
          max_iterations \in {3, 1000} :
         call = FindPathStart(walkable, <<0, 1, 0>>, goal, max_iterations)

\* BinaryHeap::pop hands out a node of least f_cost (Ord for Node, 22-26)
FindPathPop ==
    /\ call.op = "find_path"
    /\ ~call.returned
    /\ \E current \in BagToSet(call.open_set) :
         /\ \A n \in BagToSet(call.open_set) : f_cost(current) <= f_cost(n)
         /\ call' = FindPathTurn(call, current)
    /\ UNCHANGED <<roster, markets, nodes, buildings, ticks>>
    /\ CallUnchanged

\* The heap is empty: None (96)
FindPathEmpty ==
    /\ call.op = "find_path"
    /\ ~call.returned
    /\ BagToSet(call.open_set) = {}
    /\ call' = [call EXCEPT !.returned = TRUE]
    /\ UNCHANGED <<roster, markets, nodes, buildings, ticks>>
    /\ CallUnchanged

NextPath == FindPathPop \/ FindPathEmpty

SpecPath == InitPath /\ [][NextPath]_vars

\* The cells that can be reached from cell c through walkable cells
RECURSIVE ReachedFrom(_, _)
ReachedFrom(S, walkable) ==
    LET more == S \cup {n \in walkable :
                          \E c \in S : manhattan_distance(c, n) = 1}
    IN IF more = S THEN S ELSE ReachedFrom(more, walkable)

GoalReachable ==
    call.goal \in ReachedFrom({call.start}, call.walkable)

\* find_path has returned Some(path)
ReturnedSome == call.op = "find_path" /\ call.returned /\ call.some

\* C36: find_path returns Some(path) whenever the goal can be reached
\* from the start through walkable cells within max_iterations, and every
\* returned path begins at the start cell, ends at the goal cell, has
\* each cell next to the one before it (a difference of 1 on exactly one
\* axis) and has every cell after the start walkable.
C36_PathLeadsFromStartToGoal ==
    /\ (call.op = "find_path" /\ call.returned
          /\ call.max_iterations = 1000 /\ GoalReachable) => call.some
    /\ ReturnedSome =>
         /\ call.path[1] = call.start
         /\ call.path[Len(call.path)] = call.goal
         /\ \A k \in 1..(Len(call.path) - 1) :
              /\ manhattan_distance(call.path[k], call.path[k + 1]) = 1
              /\ call.path[k + 1] \in call.walkable

\* With iterations enough, find_path returns Some exactly when the goal
\* can be reached; the path returned is the goal cell alone
C36_ReturnsGoalAlone ==
    /\ (call.op = "find_path" /\ call.returned /\ call.max_iterations = 1000)
         => (call.some <=> GoalReachable)
    /\ ReturnedSome => call.path = <<call.goal>>

\* The far corner of the open room is found, six steps from the start,
\* and the path returned has one cell
C36_WitnessFarCorner ==
    /\ ReturnedSome
    /\ call.walkable = RoomCells
    /\ call.goal = <<2, 1, 2>>
    /\ call.closed_set # <<>>
    /\ Len(call.path) = 1

----------------------------------------------------------------------------
\* Combat in the fast tick (283-331): three agents standing within 5.0 of
\* one another, each loyal to a faction or to none.  The pairs of enemies
\* are detected on a copy of the roster and then dealt with one by one.
\* PersonalityProfile::random (personality.rs 26) gives every agent the
\* loyalty None and nothing in the program sets another, so that a roster
\* with a faction in it comes only from a caller of spawn_agent that
\* supplies one.

\* faction_loyalty: none (0) or one of two factions
FactionChoices == 0..2

\* An agent of the brawl
Fighter(faction) ==
    [faction_loyalty |-> faction]
    @@ NewAgent("Peasant", "Unemployed", StartingWallet("Peasant"), NoGoods)

\* LifecycleLayer::update_agent_state (lifecycle.rs 143-149)
update_agent_state(ros, agent_id, new_state) ==
    IF agent_id \in 1..Len(ros)
    THEN [ros EXCEPT ![agent_id].state = new_state]
    ELSE ros

\* 286-310: the pairs i < j of living agents of different factions, in
\* the order of the two loops
RECURSIVE PairsFrom(_, _, _)
PairsFrom(ros, i, j) ==
    IF i > Len(ros) THEN <<>>
    ELSE IF j > Len(ros) THEN PairsFrom(ros, i + 1, i + 2)
    ELSE (IF /\ is_alive(ros[i]) /\ is_alive(ros[j])
             /\ ros[i].faction_loyalty # 0 /\ ros[j].faction_loyalty # 0
             /\ ros[i].faction_loyalty # ros[j].faction_loyalty
          THEN <<<<i, j>>>> ELSE <<>>)
         \o PairsFrom(ros, i, j + 1)

combat_pairs(ros) == PairsFrom(ros, 1, 2)

InitCombat ==
    /\ IdleMatch
    /\ IdleLocks
    /\ \E f \in [1..3 -> FactionChoices] :
         roster = <<Fighter(f[1]), Fighter(f[2]), Fighter(f[3])>>
    /\ markets = <<>>
    /\ nodes = <<>>
    /\ buildings = <<>>
    /\ total_supply = InitialSupply
    /\ currency = IdleCurrency
    /\ wage_timer = 0
    /\ ticks = 0
    /\ price_op = [op |-> "none", market |-> 0]
    /\ trade_log = <<>>
    /\ ledger_before = [money |-> 0, supply |-> InitialSupply]
    /\ build_op = NoBuildOp
    /\ labor_op = NoLaborOp
    /\ call = [op |-> "none", pairs |-> <<>>]

CombatUnchanged ==
    /\ UNCHANGED <<markets, nodes, buildings, ticks>>
    /\ CallUnchanged

\* tick_fast 283-310: the enemies in range are detected
CombatDetect ==
    /\ call.pairs = <<>>
    /\ call' = [op |-> "detect", pairs |-> combat_pairs(roster)]
    /\ UNCHANGED roster
    /\ CombatUnchanged

\* tick_fast 314-331, one pair: both are set to Fighting, and as the dice
\* fall one of them is killed
CombatPair ==
    /\ call.pairs # <<>>
    /\ LET a == Head(call.pairs)[1]
           b == Head(call.pairs)[2]
           fighting == update_agent_state(
                           update_agent_state(roster, a, "Fighting"),
                           b, "Fighting")
       IN \E loser \in {0, a, b} :
            roster' = IF loser = 0 THEN fighting
                      ELSE kill_agent(fighting, loser)
    /\ call' = [op |-> "fight", pairs |-> Tail(call.pairs)]
    /\ CombatUnchanged

NextCombat == CombatDetect \/ CombatPair

SpecCombat == InitCombat /\ [][NextCombat]_vars

\* An agent that is dead when the enemies are detected is in no pair, and
\* is dead when the pairs have been dealt with
DeadAtDetectionStayDead ==
    [][CombatDetect =>
          \A i \in 1..3 :
              roster[i].state = "Dead" =>
                  \A k \in 1..Len(call'.pairs) : i \notin {call'.pairs[k][1],
                                                           call'.pairs[k][2]}]_vars

\* An agent lies dead while a pair it belongs to is still to be dealt with
DeadInPair ==
    /\ call.pairs # <<>>
    /\ \E i \in {Head(call.pairs)[1], Head(call.pairs)[2]} :
         roster[i].state = "Dead"

----------------------------------------------------------------------------
\* Deaths at the building site: the builder of the site above may die of
\* natural causes (LifecycleLayer::tick, lifecycle.rs 100-111, called from
\* tick_very_slow at 2251) while the fast and the slow tick go on.

\* tick_fast 406: the walk runs inside update_living_agents (lifecycle.rs
\* 152-162), which passes the dead by
RECURSIVE LivingMoveLoop(_, _)
LivingMoveLoop(st, i) ==
    IF i > Len(st.roster) THEN st
    ELSE LivingMoveLoop(IF is_alive(st.roster[i]) THEN builder_moves(st, i)
                        ELSE st,
                        i + 1)

\* tick_fast
MortalTickFast ==
    /\ roster' = LivingMoveLoop(EconState, 1).roster
    /\ call' = [op |-> "tick_fast", before |-> roster]
    /\ UNCHANGED <<markets, buildings, currency>>
    /\ SiteUnchanged

\* tick_slow: the needs cycle runs inside update_living_agents (870), the
\* assignment takes the builders that are Idle (2018-2021), and the loop of
\* deliveries and construction takes every agent whose job is Builder
\* (1358-1361)
MortalTickSlow ==
    /\ \E st \in {site_tick_slow(EconState)} :
          /\ roster' = st.roster
          /\ markets' = st.markets
          /\ buildings' = st.buildings
          /\ currency' = st.currency
    /\ call' = [op |-> "tick_slow", before |-> roster]
    /\ SiteUnchanged

\* LifecycleLayer::tick 100-111: a living agent dies of natural causes
MortalDeath(i) ==
    /\ is_alive(roster[i])
    /\ roster' = kill_agent(roster, i)
    /\ call' = [op |-> "kill_agent", before |-> roster]
    /\ UNCHANGED <<markets, buildings, currency>>
    /\ SiteUnchanged

NextMortal ==
    \/ MortalTickFast
    \/ MortalTickSlow
    \/ \E i \in 1..Len(roster) : MortalDeath(i)

SpecMortal == InitSite /\ [][NextMortal]_vars

\* C37: death is absorbing: an agent whose state is Dead is Dead in every
\* later state; no tick operation, be it the combat state updates made
\* through update_agent_state, the needs cycle, the assignment of builders
\* or trading, sets a dead agent's state to a living one.
C37_DeathIsAbsorbing ==
    [][\A i \in 1..Len(roster) :
          roster[i].state = "Dead" => roster'[i].state = "Dead"]_vars

\* What does hold: the fast tick leaves the dead as they are, and the slow
\* tick leaves dead every agent that is not at the site of a building
\* under construction
C37_DeadAwayFromSitesStayDead ==
    (call.op \in {"tick_fast", "tick_slow"}) =>
        \A i \in 1..Len(roster) :
            (/\ ~is_alive(call.before[i])
             /\ \/ call.op = "tick_fast"
                \/ call.before[i].near_building = 0)
              => roster[i] = call.before[i]

\* A slow tick has passed over a builder that lay dead at the site
C37_WitnessDeadAtSite ==
    /\ call.op = "tick_slow"
    /\ \E i \in 1..Len(roster) :
         /\ ~is_alive(call.before[i])
         /\ call.before[i].near_building # 0

----------------------------------------------------------------------------
\* The order books over the slow ticks of the economy (Spec)

\* The quantity of the orders of the list that agent i has placed for
\* resource r
RECURSIVE OrderedQuantity(_, _, _)
OrderedQuantity(orders, i, r) ==
    IF orders = <<>> THEN 0
    ELSE (IF Head(orders).agent_id = i /\ Head(orders).resource = r
          THEN Head(orders).quantity ELSE 0)
         + OrderedQuantity(Tail(orders), i, r)

\* What agent i has outstanding at all markets to buy, and to sell
OutstandingBuys(i, r) ==
    SumOver([k \in 1..Len(markets) |->
                OrderedQuantity(markets[k].buy_orders, i, r)],
            1..Len(markets))

OutstandingSells(i, r) ==
    SumOver([k \in 1..Len(markets) |->
                OrderedQuantity(markets[k].sell_orders, i, r)],
            1..Len(markets))

\* 1164-1167: what the agent lacks of what it needs
Deficit(a, r) == saturating_sub(a.needs[r], a.inventory[r])

\* C40: outstanding orders stay bounded by actual need: for each agent and
\* resource the quantity of its outstanding buy orders does not exceed its
\* deficit (needs minus inventory) and the quantity of its outstanding sell
\* orders does not exceed what it holds; an agent in Trading state places
\* no further order for a deficit or surplus an order in the book covers.
C40_OrdersWithinNeed ==
    \A i \in 1..Len(roster) : \A r \in ResourceTypes :
        /\ OutstandingBuys(i, r) <= Deficit(roster[i], r)
        /\ OutstandingSells(i, r) <= roster[i].inventory[r]

\* What does hold: every single buy order in a book is for no more than
\* its agent needs of the resource
C40_EachBuyOrderWithinNeeds ==
    \A k \in 1..Len(markets) : \A n \in 1..Len(markets[k].buy_orders) :
        LET o == markets[k].buy_orders[n]
        IN o.quantity <= roster[o.agent_id].needs[o.resource]

\* An agent has two buy orders in a book for one resource
C40_WitnessTwoOrders ==
    \E k \in 1..Len(markets) :
        \E n, p \in 1..Len(markets[k].buy_orders) :
            /\ n < p
            /\ markets[k].buy_orders[n].agent_id
                 = markets[k].buy_orders[p].agent_id
            /\ markets[k].buy_orders[n].resource
                 = markets[k].buy_orders[p].resource

====
